---- MODULE Spec2Model ----
(***************************************************************************)
(* Model of the script generation pipeline of ai-script-agent:             *)
(* ScriptService.generate_script / generate_script_stream, the research    *)
(* and scriptwriter agents they call, the input validators and the         *)
(* Script table they write to.                                             *)
(*                                                                         *)
(* Python values are modelled as follows.  A str is a sequence of tokens   *)
(* (one-character strings for request inputs, lexical tokens for model     *)
(* output), so "" is << >>.  A list is a sequence, a dict is a function    *)
(* from key strings to values.  None is the record None where a dict or an *)
(* object is expected and the one-token text NoneStr where a str or a list *)
(* is expected; the truthiness test "not v" is Falsy(v), resp. FalsyStr(v).*)
(* The integer primary key of a row that is not inserted yet is 0.         *)
(***************************************************************************)
EXTENDS Integers, Sequences, FiniteSets, TLC

\* ------------------------------------------------------------------ bounds
\* Number of generation requests served in one behaviour of Spec; SpecConc
\* serves one more, so that requests overlap.
NumReq == 1
\* time.time() - start_time is some value in 1..MaxElapsed.
MaxElapsed == 1
\* The scripts API is exercised on tables of up to MaxRows generated rows,
\* with skip in -1..MaxSkip and limit in -1..MaxLimit.
MaxRows == 3
MaxSkip == 2
MaxLimit == 2
\* The validators are tried on every topic of up to MaxTopicChars characters
\* over a five-letter alphabet, and on texts padded with up to MaxPad blanks.
MaxTopicChars == 6
MaxPad == 2
\* One input is validated up to MaxRevalidate times.
MaxRevalidate == 2
\* The web research agent is tried on every answer of up to MaxTokens tokens.
MaxTokens == 5

\* ------------------------------------------------------- program constants
MinTopicLen == 5
MaxTopicLen == 500
MaxBrandVoiceLen == 1000

\* ------------------------------------------------------------ Python values
None == [py |-> "None"]
EmptyDict == << >>
NoneStr == <<"<None>">>
Falsy(v) == v = None \/ v = << >>
FalsyStr(v) == v = NoneStr \/ v = << >>
HasKey(d, k) == k \in DOMAIN d
\* dict.get(k, default)
Get(d, k, default) == IF k \in DOMAIN d THEN d[k] ELSE default
\* d[k] = v on a dict
SetItem(d, k, v) == [x \in (DOMAIN d) \cup {k} |-> IF x = k THEN v ELSE d[x]]
Rep(c, n) == [i \in 1..n |-> c]

\* ------------------------------------------------------------ str helpers
Whitespace == {" ", "\t", "\n"}
UpperCase == <<"A","B","C","D","E","F","G","H","I","J","K","L","M",
               "N","O","P","Q","R","S","T","U","V","W","X","Y","Z">>
LowerCase == <<"a","b","c","d","e","f","g","h","i","j","k","l","m",
               "n","o","p","q","r","s","t","u","v","w","x","y","z">>
LowerChar(c) ==
    IF \E i \in 1..Len(UpperCase) : UpperCase[i] = c
    THEN LowerCase[CHOOSE i \in 1..Len(UpperCase) : UpperCase[i] = c]
    ELSE c
\* str.lower()
lower(s) == [i \in 1..Len(s) |-> LowerChar(s[i])]
\* str.strip()
strip(s) ==
    LET keep == {i \in 1..Len(s) : s[i] \notin Whitespace}
    IN  IF keep = {} THEN << >>
        ELSE LET lo == CHOOSE i \in keep : \A j \in keep : i <= j
                 hi == CHOOSE i \in keep : \A j \in keep : j <= i
             IN  SubSeq(s, lo, hi)
\* pattern in s
Contains(s, p) ==
    \E i \in 1..(Len(s) - Len(p) + 1) : SubSeq(s, i, i + Len(p) - 1) = p

\* ---------------------------------------------------------------- validators
spam_patterns ==
    << <<"h","t","t","p",":","/","/">>,
       <<"h","t","t","p","s",":","/","/">>,
       <<"w","w","w",".">>,
       <<"b","u","y"," ","n","o","w">>,
       <<"c","l","i","c","k"," ","h","e","r","e">> >>
valid_styles == {"educational", "entertaining", "inspirational"}
valid_durations == {"5-8 minutes", "8-10 minutes", "10-15 minutes",
                    "15-20 minutes", "20-30 minutes"}
valid_depths == {"quick", "medium", "deep"}

\* Each validator is TRUE when the Python function returns normally and
\* FALSE when it raises ValidationError.
\* Variant: the spam patterns are looked for in the topic as typed.
validate_topic_case_sensitive(topic) ==
    /\ ~(FalsyStr(topic) \/ Len(strip(topic)) < MinTopicLen)
    /\ ~(Len(topic) > MaxTopicLen)
    /\ \A i \in 1..Len(spam_patterns) : ~Contains(topic, spam_patterns[i])
validate_topic(topic) ==
    /\ ~(FalsyStr(topic) \/ Len(strip(topic)) < MinTopicLen)
    /\ ~(Len(topic) > MaxTopicLen)
    /\ \A i \in 1..Len(spam_patterns) : ~Contains(lower(topic), spam_patterns[i])
validate_style(style) == style \in valid_styles
validate_duration(duration) == duration \in valid_durations
validate_research_depth(depth) == depth \in valid_depths
\* Variant: the limit is read as "at least 1000".
validate_brand_voice_at_limit(brand_voice) ==
    ~(~FalsyStr(brand_voice) /\ Len(brand_voice) >= MaxBrandVoiceLen)
validate_brand_voice(brand_voice) ==
    ~(~FalsyStr(brand_voice) /\ Len(brand_voice) > MaxBrandVoiceLen)

\* Variant: the brand voice check is left out.
ValidateInputs_skip_brand_voice(req) ==
    /\ validate_topic(req.topic)
    /\ validate_style(req.style)
    /\ validate_duration(req.duration)
    /\ validate_research_depth(req.research_depth)
\* The five calls at the head of generate_script / generate_script_stream.
ValidateInputs(req) ==
    /\ validate_topic(req.topic)
    /\ validate_style(req.style)
    /\ validate_duration(req.duration)
    /\ validate_research_depth(req.research_depth)
    /\ validate_brand_voice(req.brand_voice)

\* ------------------------------------------------- model output and JSON
\* Model output is a sequence of lexical tokens: the two fence markers (three
\* backquotes followed by json is "FENCEjson", three backquotes alone is
\* "FENCE"), the braces "{" and "}", whitespace, free text ("txt"), the
\* JSON text "[]", and JSON object members, each written key:value.  An
\* object nested in a list is kept as its JSON text, so the source object s1
\* is <<"{", "title:s1", "}">> while the string u1 is <<"u1">>.  A JSON
\* number is the mark "<int>" followed by its digits, so the number 12 is
\* <<"<int>", "12">> while the string "12" is <<"12">>.
JsonMembers ==
    ("topic:T"          :> [k |-> "topic",        v |-> <<"T">>]) @@
    ("sources:[{s1}]"   :> [k |-> "sources",      v |-> << <<"{", "title:s1", "}">> >>]) @@
    ("sources:[u1]"     :> [k |-> "sources",      v |-> << <<"u1">> >>]) @@
    ("key_findings:[f1]" :> [k |-> "key_findings", v |-> << <<"f1">> >>]) @@
    ("error:e"          :> [k |-> "error",        v |-> <<"e">>]) @@
    ("title:Ti"         :> [k |-> "title",        v |-> <<"Ti">>]) @@
    ("full_script:S"    :> [k |-> "full_script",  v |-> <<"S">>]) @@
    ("full_script:"     :> [k |-> "full_script",  v |-> << >>]) @@
    ("full_script:null" :> [k |-> "full_script",  v |-> NoneStr]) @@
    ("estimated_duration:12" :> [k |-> "estimated_duration", v |-> <<"<int>", "12">>])

\* json.loads: [ok |-> FALSE] stands for JSONDecodeError.
json_loads(s) ==
    LET t == strip(s)
    IN  IF t = <<"[]">>
        THEN [ok |-> TRUE, is_dict |-> FALSE, value |-> << >>]
        ELSE IF /\ Len(t) >= 2
                /\ t[1] = "{"
                /\ t[Len(t)] = "}"
                /\ \A i \in 2..(Len(t) - 1) : t[i] \in DOMAIN JsonMembers
        THEN LET keys == {JsonMembers[t[i]].k : i \in 2..(Len(t) - 1)}
                 last(k) == CHOOSE i \in 2..(Len(t) - 1) :
                               /\ JsonMembers[t[i]].k = k
                               /\ \A j \in 2..(Len(t) - 1) :
                                     JsonMembers[t[j]].k = k => j <= i
             IN  [ok |-> TRUE, is_dict |-> TRUE,
                  value |-> [k \in keys |-> JsonMembers[t[last(k)]].v]]
        ELSE [ok |-> FALSE]

Fences == {"FENCEjson", "FENCE"}
\* Membership tests for the fence markers (the tagged marker contains the
\* plain one, so the plain test is true of both tokens).
HasJsonFence(content) == \E i \in 1..Len(content) : content[i] = "FENCEjson"
HasFence(content) == \E i \in 1..Len(content) : content[i] \in Fences
\* content.split(sep)[1].split(fence)[0] for sep one of the two markers: the
\* text after the first sep, up to the next fence marker of either kind.
BetweenFences(content, seps) ==
    LET first == CHOOSE i \in 1..Len(content) :
                    /\ content[i] \in seps
                    /\ \A j \in 1..(i - 1) : content[j] \notin seps
        rest == SubSeq(content, first + 1, Len(content))
        stops == {i \in 1..Len(rest) : rest[i] \in Fences}
        stop == IF stops = {} THEN Len(rest) + 1
                ELSE CHOOSE i \in stops : \A j \in stops : i <= j
    IN  SubSeq(rest, 1, stop - 1)
\* researcher.py 85-89, scriptwriter.py 125-129
ExtractFenced(content) ==
    IF HasJsonFence(content) THEN strip(BetweenFences(content, {"FENCEjson"}))
    ELSE IF HasFence(content) THEN strip(BetweenFences(content, Fences))
    ELSE content

\* What generate() of the provider adapter can do: raise RuntimeError, or
\* return content with the usage counters the provider reported.
Usages == {[input_tokens |-> 3, output_tokens |-> 5]}
GenerateOutcomes(contents) ==
    {[raised |-> TRUE]} \cup
    {[raised |-> FALSE, content |-> c, usage |-> u, stop_reason |-> <<"stop">>] :
        c \in contents, u \in Usages}

\* The outcome of a stage: an exception escaped it, or it returned value.
Raised == [raised |-> TRUE]
Returned(v) == [raised |-> FALSE, value |-> v]

\* ResearchAgent.research_topic, given what generate() did.
ResearchAgent_research_topic(topic, response) ==
    IF response.raised THEN Raised
    ELSE LET parsed == json_loads(ExtractFenced(response.content))
         IN  IF parsed.ok
             THEN IF parsed.is_dict
                  THEN Returned(SetItem(parsed.value, "_meta",
                           [tokens_used |-> response.usage,
                            stop_reason |-> response.stop_reason]))
                  ELSE Raised   \* list["_meta"] = ... is a TypeError
             ELSE Returned([topic |-> topic,
                            research_summary |-> response.content,
                            error |-> <<"JSON parsing failed">>,
                            _meta |-> response.usage])

\* text[:n]
Prefix(s, n) == SubSeq(s, 1, IF Len(s) < n THEN Len(s) ELSE n)
\* web_research_agent.py 102-106: the span from the first "{" to the last
\* "}" of the text (find and rfind + 1, 0-based), when there is one.
BraceSpan(response_text) ==
    LET opens == {i \in 1..Len(response_text) : response_text[i] = "{"}
        closes == {i \in 1..Len(response_text) : response_text[i] = "}"}
        start_idx == IF opens = {} THEN -1
                     ELSE (CHOOSE i \in opens : \A j \in opens : i <= j) - 1
        end_idx == IF closes = {} THEN 0
                   ELSE CHOOSE i \in closes : \A j \in closes : j <= i
    IN  IF start_idx # -1 /\ end_idx > start_idx
        THEN [found |-> TRUE, json_str |-> SubSeq(response_text, start_idx + 1, end_idx)]
        ELSE [found |-> FALSE]
\* Variant: a fenced block, when there is one, is cut out first.
WebResearchAgent_research_topic_fenced(topic, result) ==
    IF result.raised THEN Raised
    ELSE LET response_text == ExtractFenced(result.content)
             span == BraceSpan(response_text)
             fallback == [topic |-> topic,
                          key_findings |-> << Prefix(response_text, 500) >>,
                          statistics |-> << >>,
                          trending_angles |-> << >>,
                          hook_ideas |-> << >>,
                          sources |-> << >>,
                          research_summary |-> Prefix(response_text, 200)]
         IN  IF span.found
             THEN LET parsed == json_loads(span.json_str)
                  IN  IF parsed.ok THEN Returned(parsed.value) ELSE Returned(fallback)
             ELSE Returned(fallback)
\* WebResearchAgent.research_topic, given what Runner.run did.
WebResearchAgent_research_topic(topic, result) ==
    IF result.raised THEN Raised
    ELSE LET response_text == result.content
             span == BraceSpan(response_text)
             fallback == [topic |-> topic,
                          key_findings |-> << Prefix(response_text, 500) >>,
                          statistics |-> << >>,
                          trending_angles |-> << >>,
                          hook_ideas |-> << >>,
                          sources |-> << >>,
                          research_summary |-> Prefix(response_text, 200)]
         IN  IF span.found
             THEN LET parsed == json_loads(span.json_str)
                  IN  IF parsed.ok THEN Returned(parsed.value) ELSE Returned(fallback)
             ELSE Returned(fallback)

\* ScriptwriterAgent.generate_script, given what generate() did.
ScriptwriterAgent_generate_script(research_data, style, duration, response) ==
    IF response.raised THEN Raised
    ELSE LET topic == Get(research_data, "topic", <<"Unknown topic">>)
             parsed == json_loads(ExtractFenced(response.content))
         IN  IF parsed.ok
             THEN IF parsed.is_dict
                  THEN Returned(SetItem(parsed.value, "_meta",
                           [tokens_used |-> response.usage,
                            stop_reason |-> response.stop_reason,
                            style |-> style,
                            duration |-> duration]))
                  ELSE Raised
             ELSE Returned([title |-> topic,
                            full_script |-> response.content,
                            error |-> <<"JSON parsing failed">>,
                            _meta |-> response.usage])

\* ------------------------------------------------------- requests and replies
Requests == 1..(NumReq + 1)

TopicGood == <<"A","I"," ","n","o","w">>
TopicShort == <<" ","a","b","c","d"," ">>
TopicSpam == <<"s","e","e"," ","W","w","W",".","x">>
TopicLong == Rep("a", MaxTopicLen + 1)
BrandVoiceGood == <<"w","a","r","m">>
BrandVoiceLong == Rep("b", MaxBrandVoiceLen + 1)
BaseInput == [topic |-> TopicGood, style |-> "educational",
              duration |-> "10-15 minutes", research_depth |-> "medium",
              brand_voice |-> NoneStr]
\* The request bodies tried: the defaults, one bad field at a time, and two
\* bad fields together.
RequestInputs ==
    {BaseInput}
    \cup {[BaseInput EXCEPT !.topic = t] : t \in {TopicShort, TopicSpam, TopicLong, << >>}}
    \cup {[BaseInput EXCEPT !.style = "funny"],
          [BaseInput EXCEPT !.duration = "1 hour"],
          [BaseInput EXCEPT !.research_depth = "extreme"],
          [BaseInput EXCEPT !.brand_voice = BrandVoiceLong],
          [BaseInput EXCEPT !.topic = TopicSpam, !.style = "funny"]}

\* Texts the research model may answer with.
ResearchContents ==
    { <<"txt", "FENCEjson", "{", "topic:T", "sources:[{s1}]", "key_findings:[f1]", "}", "FENCE">>,
      <<"{", "topic:T", "}">>,
      <<"{", "topic:T", "sources:[u1]", "}">>,
      <<"txt", "{", "topic:T", "key_findings:[f1]", "}", "txt">>,
      <<"{", "error:e", "}">>,
      <<"{", "}">>,
      <<"txt">> }
\* Texts the scriptwriter model may answer with.
ScriptContents ==
    { <<"FENCEjson", "{", "title:Ti", "full_script:S", "}", "FENCE">>,
      <<"{", "full_script:", "}">>,
      <<"{", "title:Ti", "}">>,
      <<"[]">>,
      <<"txt">> }

\* self.researcher.research_topic(topic, depth): which agent runs is fixed by
\* settings.AI_PROVIDER when the service is built (script_service.py 32-35).
\* Runner.run reports no usage to the agent; the usage field is unused there.
research_topic(agent, topic, o) ==
    IF agent = "WebResearchAgent"
    THEN WebResearchAgent_research_topic(topic, o)
    ELSE ResearchAgent_research_topic(topic, o)
\* The counters the provider reported to the code for one call: the usage of
\* a generate() that returned; nothing for a call that raised, and nothing
\* for Runner.run, whose result carries no usage the agent reads.
ReportedResearch(prov, o) ==
    IF o.raised \/ prov = "openai" THEN 0
    ELSE o.usage.input_tokens + o.usage.output_tokens
ReportedScript(o) ==
    IF o.raised THEN 0 ELSE o.usage.input_tokens + o.usage.output_tokens

\* ------------------------------------------------------------------- state
VARIABLES
    provider,        \* settings.AI_PROVIDER
    store,           \* committed rows of the scripts table, in insertion order
    pc,              \* per request: where its coroutine is suspended
    mode,            \* per request: "sync" (generate_script) or "stream"
    input,           \* per request: the arguments of the call
    research_data,   \* per request: local variable research_data
    script_data,     \* per request: local variable script_data
    script_record,   \* per request: local variable script_record
    session,         \* per request: "clean" or "pending" (db.add done, not committed)
    outcome,         \* per request: "none", "returned", "stream_end" or the exception raised
    response,        \* per request: the dict returned by generate_script
    events,          \* per request: events yielded by generate_script_stream
    research_calls,  \* per request: provider calls made for the research stage
    script_calls,    \* per request: provider calls made for the script stage
    db_log,          \* per request: operations made on its session
    stage_log,       \* per request: pipeline stages entered
    reported,        \* per request: sum of the counters the provider reported
    research_reply,  \* per request: what the research provider call did, and the agent called
    script_reply,    \* per request: what the script provider call did, and the agent called
    api_reply,       \* the last call of the scripts API (get, list, delete) and its answer
    validated,       \* the validator call under study: function, argument, verdicts
    called           \* the agent or service call under study: function, arguments, result

vars == <<provider, store, pc, mode, input, research_data, script_data,
          script_record, session, outcome, response, events, research_calls,
          script_calls, db_log, stage_log, reported, research_reply,
          script_reply, api_reply, validated, called>>
\* What the generation pipeline and the scripts API never touch.
auxvars == <<validated, called>>

NoInput == [py |-> "unset"]

\* A row written by an earlier run of the service: the table outlives the
\* process, so a behaviour may start with it in the store.
OldRow ==
    [id |-> 1,
     script_id |-> 0,
     topic |-> <<"o","l","d"," ","t","o","p","i","c">>,
     style |-> "entertaining",
     duration |-> "5-8 minutes",
     research_data |-> [topic |-> <<"T">>],
     sources |-> << >>,
     title |-> <<"Ti">>,
     description |-> NoneStr,
     keywords |-> << >>,
     full_script |-> <<"S">>,
     script_sections |-> EmptyDict,
     estimated_duration |-> NoneStr,
     tone |-> NoneStr,
     target_audience |-> NoneStr,
     tokens_used |-> 16,
     generation_time |-> 0,
     created_at |-> 1]

\* No generation request has arrived and no call of the scripts API was made.
InitRequests ==
    /\ provider \in {"openai", "anthropic"}
    /\ api_reply = None
    /\ pc = [r \in Requests |-> "idle"]
    /\ mode = [r \in Requests |-> "none"]
    /\ input = [r \in Requests |-> NoInput]
    /\ research_data = [r \in Requests |-> None]
    /\ script_data = [r \in Requests |-> None]
    /\ script_record = [r \in Requests |-> None]
    /\ session = [r \in Requests |-> "clean"]
    /\ outcome = [r \in Requests |-> "none"]
    /\ response = [r \in Requests |-> None]
    /\ events = [r \in Requests |-> << >>]
    /\ research_calls = [r \in Requests |-> 0]
    /\ script_calls = [r \in Requests |-> 0]
    /\ db_log = [r \in Requests |-> << >>]
    /\ stage_log = [r \in Requests |-> << >>]
    /\ reported = [r \in Requests |-> 0]
    /\ research_reply = [r \in Requests |-> None]
    /\ script_reply = [r \in Requests |-> None]

Init == InitRequests /\ store = <<OldRow>> /\ validated = None /\ called = None

\* Requests are numbered in the order they arrive.
Arrives(r) == pc[r] = "idle" /\ \A q \in 1..(r - 1) : pc[q] # "idle"

\* generate() of ClaudeAgent and of OpenAIAgent is a coroutine that calls the
\* synchronous client without an await (base.py 47, openai_base.py 41): the
\* request does not suspend there, it holds the event loop until the provider
\* has answered.  The script call always goes that way; the research call
\* does with ResearchAgent, while WebResearchAgent awaits Runner.run
\* (web_research_agent.py 94).  Commit, refresh and sleep are awaited.
BlockingCall(q) ==
    \/ pc[q] = "await_script"
    \/ pc[q] = "await_research" /\ provider # "openai"
\* Request r can be scheduled: no other request holds the event loop.
LoopFree(r) == \A q \in Requests \ {r} : ~BlockingCall(q)

\* ------------------------------------------------- pieces of generate_script
\* Provider calls made for one stage call: generate() calls the client once
\* and has no retry loop (base.py 47, openai_base.py 41); research_topic of
\* the web agent awaits Runner.run once (web_research_agent.py 94).
\* Variant: a failed call is tried once more.
ProviderCallsPerStage_retry == 1 + 1
ProviderCallsPerStage == 1
\* Variant: every call draws the same identifier.
uuid4_same(r) == 1
\* str(uuid.uuid4()): a fresh identifier per call.
uuid4(r) == r

\* Variant: the research agent is picked anew for each request.
self_researcher_per_request(r) ==
    IF r % 2 = 1 THEN "WebResearchAgent" ELSE "ResearchAgent"
\* self.researcher as the call of request r finds it: the object made by
\* ScriptService.__init__ (script_service.py 32-35), assigned nowhere else.
self_researcher(r) ==
    IF provider = "openai" THEN "WebResearchAgent" ELSE "ResearchAgent"
\* self.scriptwriter likewise (script_service.py 37): a ScriptwriterAgent,
\* whose base class was fixed when scriptwriter.py was imported (line 9).
self_scriptwriter(r) ==
    IF provider = "openai" THEN "ScriptwriterAgent(OpenAIAgent)"
    ELSE "ScriptwriterAgent(ClaudeAgent)"

\* Variants: the error key is not looked at; the empty result is not.
research_rejected_ignore_error(rd) == Falsy(rd)
research_rejected_ignore_empty(rd) == HasKey(rd, "error")
\* script_service.py 84: the research result is rejected.
research_rejected(rd) == Falsy(rd) \/ HasKey(rd, "error")
\* Variant: a result with an error key is rejected as well.
script_rejected_on_error_key(sd) ==
    Falsy(sd) \/ FalsyStr(Get(sd, "full_script", NoneStr)) \/ HasKey(sd, "error")
\* Variant: only the presence of the key is tested.
script_rejected_key_only(sd) == Falsy(sd) \/ ~HasKey(sd, "full_script")
\* script_service.py 100: the script result is rejected.
script_rejected(sd) == Falsy(sd) \/ FalsyStr(Get(sd, "full_script", NoneStr))

\* script_service.py 104-112 (and 245-253)
total_tokens(rd, sd) ==
    LET research_tokens == Get(Get(rd, "_meta", EmptyDict), "tokens_used", EmptyDict)
        script_tokens == Get(Get(sd, "_meta", EmptyDict), "tokens_used", EmptyDict)
    IN  Get(research_tokens, "input_tokens", 0)
        + Get(research_tokens, "output_tokens", 0)
        + Get(script_tokens, "input_tokens", 0)
        + Get(script_tokens, "output_tokens", 0)

\* Script(...) at script_service.py 117-134 (and 258-275); id and created_at
\* are set when the row is inserted (0 until then).
Script(script_id, req, rd, sd, tokens, generation_time) ==
    [id |-> 0,
     script_id |-> script_id,
     topic |-> req.topic,
     style |-> req.style,
     duration |-> req.duration,
     research_data |-> rd,
     sources |-> Get(rd, "sources", << >>),
     title |-> Get(sd, "title", NoneStr),
     description |-> Get(sd, "description", NoneStr),
     keywords |-> Get(sd, "keywords", << >>),
     full_script |-> Get(sd, "full_script", << >>),
     script_sections |-> Get(sd, "script", EmptyDict),
     estimated_duration |-> Get(sd, "estimated_duration", NoneStr),
     tone |-> Get(sd, "tone", NoneStr),
     target_audience |-> Get(sd, "target_audience", NoneStr),
     tokens_used |-> tokens,
     generation_time |-> generation_time,
     created_at |-> 0]

\* Variant: the default of the lookup is left out.
response_sources_no_default(rd) == Get(rd, "sources", NoneStr)
\* script_service.py 359
response_sources(rd) == Get(rd, "sources", << >>)

\* datetime.isoformat()
isoformat(t) == [iso |-> t]
\* ScriptService._build_response
build_response(rec, rd, sd) ==
    LET script_sections == Get(sd, "script", EmptyDict)
    IN  [script_id |-> rec.script_id,
         topic |-> rec.topic,
         title |-> Get(sd, "title", NoneStr),
         description |-> Get(sd, "description", NoneStr),
         keywords |-> Get(sd, "keywords", << >>),
         hook |-> Get(script_sections, "hook", NoneStr),
         intro |-> Get(script_sections, "intro", NoneStr),
         body |-> Get(script_sections, "body", << >>),
         conclusion |-> Get(script_sections, "conclusion", NoneStr),
         full_script |-> Get(sd, "full_script", << >>),
         estimated_duration |-> Get(sd, "estimated_duration", NoneStr),
         tone |-> Get(sd, "tone", NoneStr),
         target_audience |-> Get(sd, "target_audience", NoneStr),
         sources |-> response_sources(rd),
         key_findings |-> Get(rd, "key_findings", << >>),
         tokens_used |-> rec.tokens_used,
         generation_time |-> rec.generation_time,
         created_at |-> isoformat(rec.created_at)]

\* The scripts table (database.py 13-48) in the SQLite file of config.py 25.
\* The primary key the table gives the row inserted after the rows s.
RowIdAfter(s) == IF s = << >> THEN 1 ELSE s[Len(s)].id + 1
\* created_at = datetime.utcnow() at the insert (database.py 47): the clock
\* is read as a counter that is later at every insert.
UtcNowAfter(s) == IF s = << >> THEN 1 ELSE s[Len(s)].created_at + 1
\* A String or Text column has TEXT affinity: a number bound to it is stored,
\* and read back, as its text; a string or NULL is stored as it is.
IsNumber(v) == Len(v) = 2 /\ v[1] = "<int>"
TextColumn(v) == IF IsNumber(v) THEN <<v[2]>> ELSE v
\* The values of the columns as the table holds them: the String and Text
\* columns a script result fills (database.py 31-40) convert, the JSON
\* columns keep the value (json.dumps on the way in, json.loads out).
ColumnValues(rec) ==
    [rec EXCEPT !.title = TextColumn(@),
                !.description = TextColumn(@),
                !.full_script = TextColumn(@),
                !.estimated_duration = TextColumn(@),
                !.tone = TextColumn(@),
                !.target_audience = TextColumn(@)]
\* The row as the insert after the rows s leaves it.
InsertedAfter(s, rec) ==
    [ColumnValues(rec) EXCEPT !.id = RowIdAfter(s), !.created_at = UtcNowAfter(s)]
NextRowId == RowIdAfter(store)
UtcNow == UtcNowAfter(store)
\* db.add, commit and refresh of rec against the current table.
Inserted(rec) == InsertedAfter(store, rec)
NotNullOk(rec) == rec.full_script # NoneStr /\ rec.topic # NoneStr

\* Variant: the handler re-raises without rolling the session back.
Fail_no_rollback(r, exc, ops) ==
    /\ outcome' = [outcome EXCEPT ![r] = exc]
    /\ session' = session
    /\ db_log' = [db_log EXCEPT ![r] = @ \o ops]
    /\ stage_log' = [stage_log EXCEPT ![r] = Append(@, "Failed")]
    /\ pc' = [pc EXCEPT ![r] = "done"]
\* Variant: the handler does not re-raise, so the call returns.
Fail_no_raise(r, exc, ops) ==
    /\ outcome' = [outcome EXCEPT ![r] = "returned"]
    /\ session' = [session EXCEPT ![r] = "clean"]
    /\ db_log' = [db_log EXCEPT ![r] = @ \o ops \o <<"rollback">>]
    /\ stage_log' = [stage_log EXCEPT ![r] = Append(@, "Failed")]
    /\ pc' = [pc EXCEPT ![r] = "done"]
\* except Exception: await db.rollback(); raise  (script_service.py 145-148)
Fail(r, exc, ops) ==
    /\ outcome' = [outcome EXCEPT ![r] = exc]
    /\ session' = [session EXCEPT ![r] = "clean"]
    /\ db_log' = [db_log EXCEPT ![r] = @ \o ops \o <<"rollback">>]
    /\ stage_log' = [stage_log EXCEPT ![r] = Append(@, "Failed")]
    /\ pc' = [pc EXCEPT ![r] = "done"]

\* generate_script, lines 62-79: validation, then the research call is issued.
GenerateScript(r) ==
    /\ LoopFree(r)
    /\ Arrives(r)
    /\ \E req \in RequestInputs :
        /\ input' = [input EXCEPT ![r] = req]
        /\ mode' = [mode EXCEPT ![r] = "sync"]
        /\ IF ValidateInputs(req)
           THEN /\ research_calls' = [research_calls EXCEPT ![r] = @ + ProviderCallsPerStage]
                /\ stage_log' = [stage_log EXCEPT ![r] = <<"Validated", "Researching">>]
                /\ pc' = [pc EXCEPT ![r] = "await_research"]
                /\ UNCHANGED outcome
           ELSE /\ outcome' = [outcome EXCEPT ![r] = "ValidationError"]
                /\ stage_log' = [stage_log EXCEPT ![r] = <<"Failed">>]
                /\ pc' = [pc EXCEPT ![r] = "done"]
                /\ UNCHANGED research_calls
    /\ UNCHANGED <<provider, store, research_data, script_data, script_record,
                   session, response, events, script_calls, db_log, reported>>
    /\ UNCHANGED <<research_reply, script_reply, api_reply, auxvars>>

\* generate_script, lines 80-95: the research call returns or raises; the
\* result is checked and the script call is issued.
ResearchReturns(r) ==
    /\ LoopFree(r)
    /\ pc[r] = "await_research"
    /\ mode[r] = "sync"
    /\ \E o \in GenerateOutcomes(ResearchContents) :
        LET res == research_topic(self_researcher(r), input[r].topic, o)
        IN  /\ research_reply' = [research_reply EXCEPT ![r] =
                                     SetItem(o, "agent", self_researcher(r))]
            /\ reported' = [reported EXCEPT ![r] = @ + ReportedResearch(provider, o)]
            /\ IF res.raised
               THEN /\ Fail(r, "ResearchError", << >>)
                    /\ UNCHANGED <<research_data, script_calls>>
               ELSE /\ research_data' = [research_data EXCEPT ![r] = res.value]
                    /\ IF research_rejected(res.value)
                       THEN /\ Fail(r, "ResearchError", << >>)
                            /\ UNCHANGED script_calls
                       ELSE /\ script_calls' = [script_calls EXCEPT ![r] = @ + ProviderCallsPerStage]
                            /\ stage_log' = [stage_log EXCEPT ![r] = Append(@, "Scripting")]
                            /\ pc' = [pc EXCEPT ![r] = "await_script"]
                            /\ UNCHANGED <<outcome, session, db_log>>
    /\ UNCHANGED <<provider, store, mode, input, script_data, script_record,
                   response, events, research_calls>>
    /\ UNCHANGED <<script_reply, api_reply, auxvars>>

\* generate_script, lines 96-137: the script call returns or raises; the
\* result is checked, the row is built and added, and the commit is issued.
ScriptReturns(r) ==
    /\ LoopFree(r)
    /\ pc[r] = "await_script"
    /\ mode[r] = "sync"
    /\ \E o \in GenerateOutcomes(ScriptContents) :
        LET res == ScriptwriterAgent_generate_script(
                       research_data[r], input[r].style, input[r].duration, o)
        IN  /\ script_reply' = [script_reply EXCEPT ![r] =
                                   SetItem(o, "agent", self_scriptwriter(r))]
            /\ reported' = [reported EXCEPT ![r] = @ + ReportedScript(o)]
            /\ IF res.raised
               THEN /\ Fail(r, "ScriptGenerationError", << >>)
                    /\ UNCHANGED <<script_data, script_record>>
               ELSE /\ script_data' = [script_data EXCEPT ![r] = res.value]
                    /\ IF script_rejected(res.value)
                       THEN /\ Fail(r, "ScriptGenerationError", << >>)
                            /\ UNCHANGED script_record
                       ELSE \E generation_time \in 1..MaxElapsed :
                            /\ script_record' = [script_record EXCEPT ![r] =
                                   Script(uuid4(r), input[r], research_data[r], res.value,
                                          total_tokens(research_data[r], res.value),
                                          generation_time)]
                            /\ session' = [session EXCEPT ![r] = "pending"]
                            /\ db_log' = [db_log EXCEPT ![r] = Append(@, "add")]
                            /\ stage_log' = [stage_log EXCEPT ![r] = Append(@, "Persisting")]
                            /\ pc' = [pc EXCEPT ![r] = "await_commit"]
                            /\ UNCHANGED outcome
    /\ UNCHANGED <<provider, store, mode, input, research_data, response,
                   events, research_calls, script_calls>>
    /\ UNCHANGED <<research_reply, api_reply, auxvars>>

\* generate_script, lines 137-138: the commit returns or raises; on success
\* the row is in the table and the refresh is issued.
CommitReturns(r) ==
    /\ LoopFree(r)
    /\ pc[r] = "await_commit"
    /\ mode[r] = "sync"
    /\ \/ /\ NotNullOk(script_record[r])
          /\ store' = Append(store, Inserted(script_record[r]))
          /\ script_record' = [script_record EXCEPT ![r] = Inserted(@)]
          /\ session' = [session EXCEPT ![r] = "clean"]
          /\ db_log' = [db_log EXCEPT ![r] = Append(@, "commit")]
          /\ pc' = [pc EXCEPT ![r] = "await_refresh"]
          /\ UNCHANGED <<outcome, stage_log>>
       \/ /\ Fail(r, "Exception", <<"commit_error">>)
          /\ UNCHANGED <<store, script_record>>
    /\ UNCHANGED <<provider, mode, input, research_data, script_data, response,
                   events, research_calls, script_calls, reported>>
    /\ UNCHANGED <<research_reply, script_reply, api_reply, auxvars>>

\* generate_script, lines 138-143: the refresh returns or raises; on success
\* the response is built from the refreshed row and returned.
RefreshReturns(r) ==
    /\ LoopFree(r)
    /\ pc[r] = "await_refresh"
    /\ mode[r] = "sync"
    /\ \/ /\ response' = [response EXCEPT ![r] =
                 build_response(script_record[r], research_data[r], script_data[r])]
          /\ outcome' = [outcome EXCEPT ![r] = "returned"]
          /\ db_log' = [db_log EXCEPT ![r] = Append(@, "refresh")]
          /\ stage_log' = [stage_log EXCEPT ![r] = Append(@, "Responded")]
          /\ pc' = [pc EXCEPT ![r] = "done"]
          /\ UNCHANGED session
       \/ /\ Fail(r, "Exception", <<"refresh_error">>)
          /\ UNCHANGED response
    /\ UNCHANGED <<provider, store, mode, input, research_data, script_data,
                   script_record, events, research_calls, script_calls, reported>>
    /\ UNCHANGED <<research_reply, script_reply, api_reply, auxvars>>

\* ------------------------------------------ pieces of generate_script_stream
\* The dicts passed to format_sse.
ProgressEvent(step, progress) == [type |-> "progress", step |-> step, progress |-> progress]
\* Variant: the second research event repeats the progress of the first.
FoundSourcesEvent_same_progress(rd) ==
    [type |-> "progress", step |-> "research", progress |-> 10,
     found |-> Len(Get(rd, "sources", << >>))]
FoundSourcesEvent(rd) ==
    [type |-> "progress", step |-> "research", progress |-> 33,
     found |-> Len(Get(rd, "sources", << >>))]
ErrorEvent(message) == [type |-> "error", message |-> message]
CompleteEvent(data) == [type |-> "complete", progress |-> 100, data |-> data]

\* Variant: the return after the yield is missing, the generator goes on.
StreamError_no_return(r, message) ==
    /\ events' = [events EXCEPT ![r] = Append(@, ErrorEvent(message))]
    /\ outcome' = outcome
    /\ stage_log' = [stage_log EXCEPT ![r] = Append(@, "Failed")]
    /\ pc' = pc
\* yield format_sse({"type": "error", ...}); return  (lines 176-177, 197-198,
\* 234-235): the generator ends, no rollback is made.
StreamError(r, message) ==
    /\ events' = [events EXCEPT ![r] = Append(@, ErrorEvent(message))]
    /\ outcome' = [outcome EXCEPT ![r] = "stream_end"]
    /\ stage_log' = [stage_log EXCEPT ![r] = Append(@, "Failed")]
    /\ pc' = [pc EXCEPT ![r] = "done"]

\* except Exception: await db.rollback(); yield error  (lines 289-291)
StreamFail(r, message, ops) ==
    /\ StreamError(r, message)
    /\ session' = [session EXCEPT ![r] = "clean"]
    /\ db_log' = [db_log EXCEPT ![r] = @ \o ops \o <<"rollback">>]

\* generate_script_stream, lines 168-195: validation, the first progress
\* event, then the research call is issued.
GenerateScriptStream(r) ==
    /\ LoopFree(r)
    /\ Arrives(r)
    /\ \E req \in RequestInputs :
        /\ input' = [input EXCEPT ![r] = req]
        /\ mode' = [mode EXCEPT ![r] = "stream"]
        /\ IF ValidateInputs(req)
           THEN /\ events' = [events EXCEPT ![r] = <<ProgressEvent("research", 10)>>]
                /\ research_calls' = [research_calls EXCEPT ![r] = @ + ProviderCallsPerStage]
                /\ stage_log' = [stage_log EXCEPT ![r] = <<"Validated", "Researching">>]
                /\ pc' = [pc EXCEPT ![r] = "await_research"]
                /\ UNCHANGED outcome
           ELSE /\ StreamError(r, "ValidationError")
                /\ UNCHANGED research_calls
    /\ UNCHANGED <<provider, store, research_data, script_data, script_record,
                   session, response, script_calls, db_log, reported>>
    /\ UNCHANGED <<research_reply, script_reply, api_reply, auxvars>>

\* generate_script_stream, lines 196-216: the research call returns or
\* raises; two progress events, then the generator sleeps.
StreamResearchReturns(r) ==
    /\ LoopFree(r)
    /\ pc[r] = "await_research"
    /\ mode[r] = "stream"
    /\ \E o \in GenerateOutcomes(ResearchContents) :
        LET res == research_topic(self_researcher(r), input[r].topic, o)
        IN  /\ research_reply' = [research_reply EXCEPT ![r] =
                                     SetItem(o, "agent", self_researcher(r))]
            /\ reported' = [reported EXCEPT ![r] = @ + ReportedResearch(provider, o)]
            /\ IF res.raised
               THEN /\ StreamError(r, "Research failed")
                    /\ UNCHANGED research_data
               ELSE /\ research_data' = [research_data EXCEPT ![r] = res.value]
                    /\ events' = [events EXCEPT ![r] =
                           @ \o <<FoundSourcesEvent(res.value), ProgressEvent("analysis", 50)>>]
                    /\ pc' = [pc EXCEPT ![r] = "sleep"]
                    /\ UNCHANGED <<outcome, stage_log>>
    /\ UNCHANGED <<provider, store, mode, input, script_data, script_record,
                   session, response, research_calls, script_calls, db_log>>
    /\ UNCHANGED <<script_reply, api_reply, auxvars>>

\* Variant: the script call is issued without the event before it.
StreamWakes_no_event(r) ==
    /\ LoopFree(r)
    /\ pc[r] = "sleep"
    /\ script_calls' = [script_calls EXCEPT ![r] = @ + ProviderCallsPerStage]
    /\ stage_log' = [stage_log EXCEPT ![r] = Append(@, "Scripting")]
    /\ pc' = [pc EXCEPT ![r] = "await_script"]
    /\ UNCHANGED <<provider, store, mode, input, research_data, script_data,
                   script_record, session, outcome, response, research_calls,
                   db_log, reported, events>>
    /\ UNCHANGED <<research_reply, script_reply, api_reply, auxvars>>
\* generate_script_stream, lines 216-232: the sleep ends; a progress event,
\* then the script call is issued.
StreamWakes(r) ==
    /\ LoopFree(r)
    /\ pc[r] = "sleep"
    /\ events' = [events EXCEPT ![r] = Append(@, ProgressEvent("writing", 66))]
    /\ script_calls' = [script_calls EXCEPT ![r] = @ + ProviderCallsPerStage]
    /\ stage_log' = [stage_log EXCEPT ![r] = Append(@, "Scripting")]
    /\ pc' = [pc EXCEPT ![r] = "await_script"]
    /\ UNCHANGED <<provider, store, mode, input, research_data, script_data,
                   script_record, session, outcome, response, research_calls,
                   db_log, reported>>
    /\ UNCHANGED <<research_reply, script_reply, api_reply, auxvars>>

\* generate_script_stream, lines 233-278: the script call returns or raises;
\* a progress event, the row is built and added, and the commit is issued.
StreamScriptReturns(r) ==
    /\ LoopFree(r)
    /\ pc[r] = "await_script"
    /\ mode[r] = "stream"
    /\ \E o \in GenerateOutcomes(ScriptContents) :
        LET res == ScriptwriterAgent_generate_script(
                       research_data[r], input[r].style, input[r].duration, o)
        IN  /\ script_reply' = [script_reply EXCEPT ![r] =
                                   SetItem(o, "agent", self_scriptwriter(r))]
            /\ reported' = [reported EXCEPT ![r] = @ + ReportedScript(o)]
            /\ IF res.raised
               THEN /\ StreamError(r, "Script generation failed")
                    /\ UNCHANGED <<script_data, script_record, session, db_log>>
               ELSE \E generation_time \in 1..MaxElapsed :
                    /\ script_data' = [script_data EXCEPT ![r] = res.value]
                    /\ events' = [events EXCEPT ![r] = Append(@, ProgressEvent("writing", 90))]
                    /\ script_record' = [script_record EXCEPT ![r] =
                           Script(uuid4(r), input[r], research_data[r], res.value,
                                  total_tokens(research_data[r], res.value),
                                  generation_time)]
                    /\ session' = [session EXCEPT ![r] = "pending"]
                    /\ db_log' = [db_log EXCEPT ![r] = Append(@, "add")]
                    /\ stage_log' = [stage_log EXCEPT ![r] = Append(@, "Persisting")]
                    /\ pc' = [pc EXCEPT ![r] = "await_commit"]
                    /\ UNCHANGED outcome
    /\ UNCHANGED <<provider, store, mode, input, research_data, response,
                   research_calls, script_calls>>
    /\ UNCHANGED <<research_reply, api_reply, auxvars>>

\* generate_script_stream, lines 278-279: the commit returns or raises.
StreamCommitReturns(r) ==
    /\ LoopFree(r)
    /\ pc[r] = "await_commit"
    /\ mode[r] = "stream"
    /\ \/ /\ NotNullOk(script_record[r])
          /\ store' = Append(store, Inserted(script_record[r]))
          /\ script_record' = [script_record EXCEPT ![r] = Inserted(@)]
          /\ session' = [session EXCEPT ![r] = "clean"]
          /\ db_log' = [db_log EXCEPT ![r] = Append(@, "commit")]
          /\ pc' = [pc EXCEPT ![r] = "await_refresh"]
          /\ UNCHANGED <<outcome, stage_log, events>>
       \/ /\ StreamFail(r, "Exception", <<"commit_error">>)
          /\ UNCHANGED <<store, script_record>>
    /\ UNCHANGED <<provider, mode, input, research_data, script_data, response,
                   research_calls, script_calls, reported>>
    /\ UNCHANGED <<research_reply, script_reply, api_reply, auxvars>>

\* generate_script_stream, lines 279-287: the refresh returns or raises; on
\* success the complete event carries the response.
StreamRefreshReturns(r) ==
    /\ LoopFree(r)
    /\ pc[r] = "await_refresh"
    /\ mode[r] = "stream"
    /\ \/ /\ events' = [events EXCEPT ![r] = Append(@, CompleteEvent(
                 build_response(script_record[r], research_data[r], script_data[r])))]
          /\ outcome' = [outcome EXCEPT ![r] = "stream_end"]
          /\ db_log' = [db_log EXCEPT ![r] = Append(@, "refresh")]
          /\ stage_log' = [stage_log EXCEPT ![r] = Append(@, "Responded")]
          /\ pc' = [pc EXCEPT ![r] = "done"]
          /\ UNCHANGED session
       \/ StreamFail(r, "Exception", <<"refresh_error">>)
    /\ UNCHANGED <<provider, store, mode, input, research_data, script_data,
                   script_record, response, research_calls, script_calls, reported>>
    /\ UNCHANGED <<research_reply, script_reply, api_reply, auxvars>>

Next ==
    \E r \in 1..NumReq :
        \/ GenerateScript(r)
        \/ ResearchReturns(r)
        \/ ScriptReturns(r)
        \/ CommitReturns(r)
        \/ RefreshReturns(r)
        \/ GenerateScriptStream(r)
        \/ StreamResearchReturns(r)
        \/ StreamWakes(r)
        \/ StreamScriptReturns(r)
        \/ StreamCommitReturns(r)
        \/ StreamRefreshReturns(r)

Spec == Init /\ [][Next]_vars

\* A step of request r, whichever it is.
RequestStep(r) ==
    \/ GenerateScript(r)
    \/ ResearchReturns(r)
    \/ ScriptReturns(r)
    \/ CommitReturns(r)
    \/ RefreshReturns(r)
    \/ GenerateScriptStream(r)
    \/ StreamResearchReturns(r)
    \/ StreamWakes(r)
    \/ StreamScriptReturns(r)
    \/ StreamCommitReturns(r)
    \/ StreamRefreshReturns(r)

\* The same service with every request of Requests served: the calls are
\* coroutines on one event loop (main.py 85-112), each with a session of its
\* own (get_db, database.py 95-101), and interleave at their awaits.
NextConc ==
    \E r \in Requests :
        \/ GenerateScript(r)
        \/ ResearchReturns(r)
        \/ ScriptReturns(r)
        \/ CommitReturns(r)
        \/ RefreshReturns(r)
        \/ GenerateScriptStream(r)
        \/ StreamResearchReturns(r)
        \/ StreamWakes(r)
        \/ StreamScriptReturns(r)
        \/ StreamCommitReturns(r)
        \/ StreamRefreshReturns(r)

SpecConc == Init /\ [][NextConc]_vars

\* ------------------------------------------------------- observation helpers
RowIdx(r) == {i \in 1..Len(store) : store[i].script_id = r}
InLog(log, x) == \E i \in 1..Len(log) : log[i] = x
LastEventType(r) ==
    IF events[r] = << >> THEN "none" ELSE events[r][Len(events[r])].type
AnyValidationFails(req) ==
    \/ ~validate_topic(req.topic)
    \/ ~validate_style(req.style)
    \/ ~validate_duration(req.duration)
    \/ ~validate_research_depth(req.research_depth)
    \/ ~validate_brand_voice(req.brand_voice)
\* The research (script) stage call of r has ended by raising.
ResearchRaised(r) ==
    research_calls[r] > 0 /\ pc[r] # "await_research" /\ research_data[r] = None
ScriptRaised(r) ==
    script_calls[r] > 0 /\ pc[r] # "await_script" /\ script_data[r] = None
\* The research stage call of r has ended and handed back a usable record.
ResearchGood(r) ==
    /\ research_calls[r] > 0 /\ pc[r] # "await_research"
    /\ research_data[r] # None /\ research_data[r] # << >>
    /\ ~HasKey(research_data[r], "error")
\* The script stage call of r has ended with a non-empty full_script.
ScriptGood(r) ==
    /\ script_calls[r] > 0 /\ pc[r] # "await_script"
    /\ script_data[r] # None
    /\ HasKey(script_data[r], "full_script")
    /\ script_data[r].full_script \notin {<< >>, NoneStr}
ErrorOutcomes == {"ValidationError", "ResearchError", "ScriptGenerationError", "Exception"}
\* The request has ended in failure: generate_script raised, or the stream
\* ended with an error event.
RequestFailed(r) ==
    /\ pc[r] = "done"
    /\ \/ outcome[r] \in ErrorOutcomes
       \/ mode[r] = "stream" /\ LastEventType(r) = "error"

\* The research (script) provider call of r returned a text.
ResearchReplied(r) == research_reply[r] # None /\ ~research_reply[r].raised
ScriptReplied(r) == script_reply[r] # None /\ ~script_reply[r].raised
\* No JSON value can be read from the text: not from the text itself, not
\* from its fenced block and not from its outermost brace span.
NoJson(content) ==
    /\ ~json_loads(content).ok
    /\ ~json_loads(ExtractFenced(content)).ok
    /\ BraceSpan(content).found => ~json_loads(BraceSpan(content).json_str).ok
\* A record that carries an error marker and the raw text of the model.
IsDegraded(rec, content) ==
    /\ rec # None
    /\ HasKey(rec, "error")
    /\ \E k \in {"research_summary", "full_script"} \cap DOMAIN rec : rec[k] = content

\* The object a research record was read from: the record without the
\* _meta entry the agent adds.
SameObject(rec, value) ==
    /\ rec # None
    /\ DOMAIN rec \ {"_meta"} = DOMAIN value
    /\ \A k \in DOMAIN value : rec[k] = value[k]

\* ------------------------------------------------------------ HTTP boundary
\* A list item that is a JSON object (kept as its text) rather than a string.
IsJsonObject(v) == Len(v) >= 2 /\ v[1] = "{" /\ v[Len(v)] = "}"
\* Validation of the returned dict against response_model=ScriptResponse
\* (schemas.py 33-62): keywords and key_findings are List[str], body and
\* sources are List[Dict[str, Any]], full_script is a required str.
ScriptResponse_validates(resp) ==
    /\ resp.full_script # NoneStr
    /\ \A i \in 1..Len(resp.keywords) : ~IsJsonObject(resp.keywords[i])
    /\ \A i \in 1..Len(resp.key_findings) : ~IsJsonObject(resp.key_findings[i])
    /\ \A i \in 1..Len(resp.body) : IsJsonObject(resp.body[i])
    /\ \A i \in 1..Len(resp.sources) : IsJsonObject(resp.sources[i])
\* POST /api/generate (main.py 85-112), given how generate_script ended: an
\* exception becomes HTTPException(500, detail=str(e)); a returned dict is
\* validated against the response model by the framework, outside the try
\* block, and a dict that does not validate is answered with 500.
api_generate(out, resp) ==
    IF out \in ErrorOutcomes THEN [status |-> 500, detail |-> out]
    ELSE IF ScriptResponse_validates(resp) THEN [status |-> 200, body |-> resp]
    ELSE [status |-> 500, detail |-> "Internal Server Error"]
\* The answer to request r of POST /api/generate, once its call has ended.
HttpAnswer(r) == api_generate(outcome[r], response[r])

\* ------------------------------------------------------------- scripts API
\* The generations that wrote the rows the scripts API is exercised on: the
\* k-th has script_id k; which agent researched, and what the models
\* answered, goes round three cases.
StoredGeneration(k) ==
    LET m == k % 3
    IN  [agent |-> IF m = 2 THEN "WebResearchAgent" ELSE "ResearchAgent",
         input |-> [BaseInput EXCEPT !.style =
                       IF m = 1 THEN "educational" ELSE "entertaining"],
         research |-> IF m = 1
                      THEN <<"txt", "FENCEjson", "{", "topic:T", "sources:[{s1}]",
                             "key_findings:[f1]", "}", "FENCE">>
                      ELSE IF m = 2 THEN <<"{", "topic:T", "sources:[u1]", "}">>
                      ELSE <<"{", "topic:T", "}">>,
         script |-> IF m = 1
                    THEN <<"FENCEjson", "{", "title:Ti", "full_script:S", "}", "FENCE">>
                    ELSE IF m = 2 THEN <<"txt">>
                    ELSE <<"{", "title:Ti", "full_script:S",
                           "estimated_duration:12", "}">>]
\* The record the k-th generation handed to db.add (script_service.py
\* 258-277), from the results of its two stages.
NewScript(k) ==
    LET g == StoredGeneration(k)
        reply(c) == [raised |-> FALSE, content |-> c,
                     usage |-> [input_tokens |-> 3, output_tokens |-> 5],
                     stop_reason |-> <<"stop">>]
        rd == research_topic(g.agent, g.input.topic, reply(g.research)).value
        sd == ScriptwriterAgent_generate_script(rd, g.input.style,
                  g.input.duration, reply(g.script)).value
    IN  Script(k, g.input, rd, sd, total_tokens(rd, sd), 1)
\* The table after the first n generations committed, in that order.
RECURSIVE GeneratedStore(_)
GeneratedStore(n) ==
    IF n = 0 THEN << >>
    ELSE LET s == GeneratedStore(n - 1)
         IN  Append(s, InsertedAfter(s, NewScript(n)))
\* The script ids asked for: those of the generations and one no generation
\* ever used.
ScriptIds == 1..(MaxRows + 1)

\* Script.to_dict (database.py 50-72); updated_at, which no call reads apart
\* from this one, is left out.
to_dict(row) ==
    [id |-> row.id,
     script_id |-> row.script_id,
     topic |-> row.topic,
     style |-> row.style,
     duration |-> row.duration,
     title |-> row.title,
     description |-> row.description,
     keywords |-> row.keywords,
     full_script |-> row.full_script,
     script_sections |-> row.script_sections,
     estimated_duration |-> row.estimated_duration,
     tone |-> row.tone,
     target_audience |-> row.target_audience,
     research_data |-> row.research_data,
     sources |-> row.sources,
     tokens_used |-> row.tokens_used,
     generation_time |-> row.generation_time,
     created_at |-> IF row.created_at # 0 THEN isoformat(row.created_at) ELSE None]

\* ScriptService.get_script (script_service.py 293-303) on the table s.
get_script(s, script_id) ==
    LET found == {i \in 1..Len(s) : s[i].script_id = script_id}
    IN  IF found = {}
        THEN [raised |-> TRUE, exc |-> "ValueError"]
        ELSE Returned(to_dict(s[CHOOSE i \in found : TRUE]))
\* GET /api/scripts/{script_id} (main.py 115-137)
api_get_script(s, script_id) ==
    LET result == get_script(s, script_id)
    IN  IF result.raised
        THEN [status |-> 404, detail |-> "not found"]
        ELSE [status |-> 200, body |-> result.value]

\* Variant: order_by(Script.created_at) without desc().
OrderByCreatedAsc(s) ==
    [k \in 1..Len(s) |->
        s[CHOOSE i \in 1..Len(s) :
            Cardinality({j \in 1..Len(s) : s[j].created_at < s[i].created_at}) = k - 1]]
\* order_by(Script.created_at.desc()) (script_service.py 319): the k-th row
\* of the result has k - 1 rows created after it.
OrderByCreatedDesc(s) ==
    [k \in 1..Len(s) |->
        s[CHOOSE i \in 1..Len(s) :
            Cardinality({j \in 1..Len(s) : s[j].created_at > s[i].created_at}) = k - 1]]
\* ScriptService.list_scripts (script_service.py 305-328) on the table s.
\* SQLite reads a negative OFFSET as 0 and a negative LIMIT as no limit.
list_scripts(s, skip, limit) ==
    LET total == Len(s)
        ordered == OrderByCreatedDesc(s)
        offset == IF skip < 0 THEN 0 ELSE skip
        rest == SubSeq(ordered, offset + 1, Len(ordered))
        scripts == IF limit < 0 THEN rest ELSE Prefix(rest, limit)
    IN  [total |-> total,
         scripts |-> [i \in 1..Len(scripts) |-> to_dict(scripts[i])]]
\* GET /api/scripts (main.py 140-162): skip and limit are any integers.
api_list_scripts(s, skip, limit) ==
    [status |-> 200, body |-> list_scripts(s, skip, limit)]

\* delete(Script).where(Script.script_id == script_id) (main.py 242-244)
\* Variant: the where clause is missing, every row is deleted.
RowsWithout_no_where(s, script_id) ==
    IF \E i \in 1..Len(s) : s[i].script_id = script_id THEN << >> ELSE s
\* delete(Script).where(Script.script_id == script_id) (main.py 242-245)
RowsWithout(s, script_id) ==
    LET keep(row) == row.script_id # script_id IN SelectSeq(s, keep)
\* DELETE /api/scripts/{script_id} (main.py 223-256), after its commit.
api_delete_script(s, script_id) ==
    LET rowcount == Len(s) - Len(RowsWithout(s, script_id))
    IN  IF rowcount = 0
        THEN [status |-> 404, detail |-> "Script not found"]
        ELSE [status |-> 200, message |-> "Script deleted successfully"]

reqvars == <<provider, pc, mode, input, research_data, script_data,
             script_record, session, outcome, response, events,
             research_calls, script_calls, db_log, stage_log, reported,
             research_reply, script_reply>>

GetScript(script_id) ==
    /\ api_reply' = [call |-> "get", script_id |-> script_id,
                     answer |-> api_get_script(store, script_id)]
    /\ UNCHANGED <<store, reqvars, auxvars>>

ListScripts(skip, limit) ==
    /\ api_reply' = [call |-> "list", skip |-> skip, limit |-> limit,
                     answer |-> api_list_scripts(store, skip, limit)]
    /\ UNCHANGED <<store, reqvars, auxvars>>

DeleteScript(script_id) ==
    /\ store' = RowsWithout(store, script_id)
    /\ api_reply' = [call |-> "delete", script_id |-> script_id,
                     answer |-> api_delete_script(store, script_id)]
    /\ UNCHANGED <<reqvars, auxvars>>

\* The scripts API on a table that generations filled, no generation running.
InitStore ==
    /\ InitRequests
    /\ store \in {GeneratedStore(n) : n \in 0..MaxRows}
    /\ validated = None
    /\ called = None
NextStore ==
    \/ \E script_id \in ScriptIds : GetScript(script_id)
    \/ \E skip \in -1..MaxSkip, limit \in -1..MaxLimit : ListScripts(skip, limit)
    \/ \E script_id \in ScriptIds : DeleteScript(script_id)
SpecStore == InitStore /\ [][NextStore]_vars

\* --------------------------------------------------- validators on their own
\* str.upper() on one character
UpperChar(c) ==
    IF \E i \in 1..Len(LowerCase) : LowerCase[i] = c
    THEN UpperCase[CHOOSE i \in 1..Len(LowerCase) : LowerCase[i] = c]
    ELSE c
\* The spellings of a text tried: lower case, upper case, and alternating.
Spellings(s) ==
    {lower(s),
     [i \in 1..Len(s) |-> UpperChar(s[i])],
     [i \in 1..Len(s) |-> IF i % 2 = 1 THEN UpperChar(s[i]) ELSE s[i]]}
\* s without its k-th character
DropChar(s, k) == SubSeq(s, 1, k - 1) \o SubSeq(s, k + 1, Len(s))
TopicAlphabet == {"w", "W", ".", " ", "a"}
\* The topics handed to validate_topic: every short text over the alphabet,
\* runs of a letter around the two length limits with blanks around them,
\* every spam pattern in three spellings, alone and inside a sentence, and
\* every spam pattern with one character missing.
ValidatorTopics ==
    UNION {[1..n -> TopicAlphabet] : n \in 0..MaxTopicChars}
    \cup {Rep(" ", l) \o Rep("a", n) \o Rep(" ", t) :
            l \in 0..MaxPad, t \in 0..MaxPad,
            n \in {MinTopicLen - 1, MinTopicLen} \cup
                  ((MaxTopicLen - 2 * MaxPad)..(MaxTopicLen + 1))}
    \cup UNION {Spellings(spam_patterns[i]) : i \in 1..Len(spam_patterns)}
    \cup UNION {{<<"s","e","e"," ">> \o p \o <<"x","y">> :
                    p \in Spellings(spam_patterns[i])} : i \in 1..Len(spam_patterns)}
    \cup UNION {{<<"s","e","e"," ">> \o DropChar(spam_patterns[i], k) \o <<"x","y">> :
                    k \in 1..Len(spam_patterns[i])} : i \in 1..Len(spam_patterns)}
ValidatorStyles ==
    valid_styles \cup {"Educational", "educational ", "funny", "tutorial", ""}
ValidatorDurations ==
    valid_durations \cup {"5-8", "10-15 Minutes", "30-45 minutes", "1 hour", ""}
ValidatorDepths ==
    valid_depths \cup {"Quick", "shallow", "extreme", ""}
ValidatorBrandVoices ==
    {NoneStr, << >>}
    \cup {Rep(" ", l) \o Rep("b", n) :
            l \in 0..MaxPad,
            n \in {1} \cup ((MaxBrandVoiceLen - MaxPad - 1)..(MaxBrandVoiceLen + 1))}

\* A validator call that has not run yet, and the verdict it ends with.
Pending(fn, arg) == [fn |-> fn, arg |-> arg, verdict |-> "pending"]
Verdict(ok) == IF ok THEN "returned" ELSE "ValidationError"
IsPending(fn) ==
    validated # None /\ validated.fn = fn /\ validated.verdict = "pending"

ValidateTopic ==
    /\ IsPending("validate_topic")
    /\ validated' = [validated EXCEPT !.verdict = Verdict(validate_topic(validated.arg))]
    /\ UNCHANGED <<store, reqvars, api_reply, called>>
ValidateStyle ==
    /\ IsPending("validate_style")
    /\ validated' = [validated EXCEPT !.verdict = Verdict(validate_style(validated.arg))]
    /\ UNCHANGED <<store, reqvars, api_reply, called>>
ValidateDuration ==
    /\ IsPending("validate_duration")
    /\ validated' = [validated EXCEPT !.verdict = Verdict(validate_duration(validated.arg))]
    /\ UNCHANGED <<store, reqvars, api_reply, called>>
ValidateResearchDepth ==
    /\ IsPending("validate_research_depth")
    /\ validated' = [validated EXCEPT !.verdict =
                        Verdict(validate_research_depth(validated.arg))]
    /\ UNCHANGED <<store, reqvars, api_reply, called>>
ValidateBrandVoice ==
    /\ IsPending("validate_brand_voice")
    /\ validated' = [validated EXCEPT !.verdict =
                        Verdict(validate_brand_voice(validated.arg))]
    /\ UNCHANGED <<store, reqvars, api_reply, called>>

\* One validator, one argument, called once.
InitValidate ==
    /\ InitRequests
    /\ store = <<OldRow>>
    /\ called = None
    /\ \/ validated \in {Pending("validate_topic", t) : t \in ValidatorTopics}
       \/ validated \in {Pending("validate_style", x) : x \in ValidatorStyles}
       \/ validated \in {Pending("validate_duration", x) : x \in ValidatorDurations}
       \/ validated \in {Pending("validate_research_depth", x) : x \in ValidatorDepths}
       \/ validated \in {Pending("validate_brand_voice", b) : b \in ValidatorBrandVoices}
NextValidate ==
    \/ ValidateTopic
    \/ ValidateStyle
    \/ ValidateDuration
    \/ ValidateResearchDepth
    \/ ValidateBrandVoice
SpecValidate == InitValidate /\ [][NextValidate]_vars

\* ------------------------------------------------------ validating again
\* The inputs validated more than once: the defaults, inputs with one or two
\* bad fields, and inputs with other allowed values.
RevalidatedInputs ==
    {BaseInput}
    \cup {[BaseInput EXCEPT !.topic = t] : t \in {TopicShort, TopicSpam, << >>}}
    \cup {[BaseInput EXCEPT !.style = "funny"],
          [BaseInput EXCEPT !.duration = "1 hour"],
          [BaseInput EXCEPT !.research_depth = "extreme"],
          [BaseInput EXCEPT !.topic = TopicSpam, !.style = "funny"]}
    \cup {[BaseInput EXCEPT !.topic = Rep("a", MinTopicLen), !.brand_voice = << >>],
          [BaseInput EXCEPT !.style = "entertaining", !.duration = "5-8 minutes",
                            !.research_depth = "quick", !.brand_voice = BrandVoiceGood],
          [topic |-> <<"A","I"," ","n","e","x","t">>, style |-> "inspirational",
           duration |-> "20-30 minutes", research_depth |-> "deep",
           brand_voice |-> <<"d","r","y">>]}
\* Variant: a topic that a stored row already has is turned down.
validate_inputs_once_per_topic(req) ==
    Verdict(ValidateInputs(req) /\ \A i \in 1..Len(store) : store[i].topic # req.topic)
\* The five validators called on req as at script_service.py 63-67.
validate_inputs(req) == Verdict(ValidateInputs(req))
\* One run of the five validators, noted with the size of the table then.
Validation(req) == [verdict |-> validate_inputs(req), rows |-> Len(store)]

ValidateFirst(req) ==
    /\ validated = None
    /\ validated' = [fn |-> "validate_inputs", arg |-> req,
                     verdicts |-> <<Validation(req)>>]
    /\ UNCHANGED <<store, reqvars, api_reply, called>>
ValidateAgain ==
    /\ validated # None
    /\ Len(validated.verdicts) < MaxRevalidate
    /\ validated' = [validated EXCEPT
                        !.verdicts = Append(@, Validation(validated.arg))]
    /\ UNCHANGED <<store, reqvars, api_reply, called>>

\* Validation of one input, again and again, between reads of and deletes
\* from the table.
NextRevalidate ==
    \/ \E req \in RevalidatedInputs : ValidateFirst(req)
    \/ ValidateAgain
    \/ \E script_id \in ScriptIds : GetScript(script_id)
    \/ \E script_id \in ScriptIds : DeleteScript(script_id)
SpecRevalidate == InitStore /\ [][NextRevalidate]_vars

\* ------------------------------------------- the web research agent alone
\* The tokens of the answers tried; none of them holds a brace inside.
AnswerTokens == {"{", "}", "FENCE", "topic:T", "txt"}
WebAnswers == UNION {[1..n -> AnswerTokens] : n \in 0..MaxTokens}
\* Runner.run returned a result whose final_output is text.
RunnerResult(text) == [raised |-> FALSE, content |-> text]

\* WebResearchAgent.research_topic(topic) once Runner.run has answered.
WebResearchReturns ==
    /\ called # None
    /\ called.fn = "WebResearchAgent.research_topic"
    /\ called.result = None
    /\ called' = [called EXCEPT !.result =
           WebResearchAgent_research_topic(called.topic, RunnerResult(called.text))]
    /\ UNCHANGED <<store, reqvars, api_reply, validated>>

InitExtract ==
    /\ InitRequests
    /\ store = <<OldRow>>
    /\ validated = None
    /\ called \in {[fn |-> "WebResearchAgent.research_topic", topic |-> TopicGood,
                    text |-> text, result |-> None] : text \in WebAnswers}
NextExtract == WebResearchReturns
SpecExtract == InitExtract /\ [][NextExtract]_vars

\* ------------------------------------------- the refinement service alone
\* RefinementService.refine_section called once on the module's
\* refinement_service, whose scriptwriter is a ScriptwriterAgent.
RefineSectionNames == {"hook", "intro", "body", "conclusion"}
RefineContents == {<< >>, <<"o","l","d">>}
RefineResearch == {EmptyDict, [topic |-> TopicGood, key_findings |-> <<"f1">>]}
RefineFeedback == {NoneStr, << >>, <<"f","b">>}

\* What an instance of ScriptwriterAgent has: the class's own names and those
\* of the base class chosen at import.
ScriptwriterAgent_attributes(agent) ==
    {"SYSTEM_PROMPT", "generate_script", "refine_script",
     "generate", "client", "model", "max_tokens"}
    \cup (IF agent = "ScriptwriterAgent(ClaudeAgent)"
          THEN {"_extract_content", "_extract_tool_calls"}
          ELSE {})

\* _build_refinement_prompt: the parts put into the prompt text, in order.
build_refinement_prompt(section_name, current_content, research, style, duration, brand_voice, user_feedback) ==
    [section_name |-> section_name,
     topic |-> Get(research, "topic", <<"U","n","k","n","o","w","n">>),
     style |-> style,
     duration |-> duration,
     key_findings |-> Get(research, "key_findings", << >>),
     current_content |-> current_content,
     user_feedback |-> IF FalsyStr(user_feedback) THEN NoneStr ELSE user_feedback,
     brand_voice |-> IF FalsyStr(brand_voice) THEN NoneStr ELSE brand_voice]

\* refine_section with the defaults for style, duration and brand_voice;
\* answer is what the provider would say.
refine_section(agent, section_name, current_content, research, user_feedback, answer) ==
    LET refinement_prompt ==
            build_refinement_prompt(section_name, current_content, research,
                                    "educational", "10-15 minutes", NoneStr,
                                    user_feedback)
    IN  IF "_generate_with_provider" \notin ScriptwriterAgent_attributes(agent)
        THEN [raised |-> TRUE, error |-> "AttributeError",
              prompt |-> refinement_prompt]
        ELSE [raised |-> FALSE, prompt |-> refinement_prompt,
              value |-> [section_name |-> section_name,
                         refined_content |-> answer,
                         feedback_applied |-> user_feedback # NoneStr]]

RefineSection ==
    /\ called # None
    /\ called.fn = "RefinementService.refine_section"
    /\ called.result = None
    /\ called' = [called EXCEPT !.result =
           refine_section(self_scriptwriter(1), called.section_name,
                          called.current_content, called.research_data,
                          called.user_feedback, <<"n","e","w">>)]
    /\ UNCHANGED <<store, reqvars, api_reply, validated>>

InitRefine ==
    /\ InitRequests
    /\ store = <<OldRow>>
    /\ validated = None
    /\ called \in {[fn |-> "RefinementService.refine_section",
                    section_name |-> n, current_content |-> c,
                    research_data |-> d, user_feedback |-> f, result |-> None] :
                   n \in RefineSectionNames, c \in RefineContents,
                   d \in RefineResearch, f \in RefineFeedback}
NextRefine == RefineSection
SpecRefine == InitRefine /\ [][NextRefine]_vars

\* ------------------------------------------------------------------- claims

\* C1: in generate_script, when any of the five validations fails the call
\* ends with ValidationError and the request has made no research call, no
\* script call and no store operation (add, commit, rollback); it has no row
\* in the store.
C1_ValidationFailureHasNoEffect ==
    \A r \in Requests :
        (mode[r] = "sync" /\ AnyValidationFails(input[r])) =>
            /\ pc[r] = "done"
            /\ outcome[r] = "ValidationError"
            /\ research_calls[r] = 0
            /\ script_calls[r] = 0
            /\ db_log[r] = << >>
            /\ session[r] = "clean"
            /\ RowIdx(r) = {}
C1_Witness ==
    \E r \in Requests :
        /\ mode[r] = "sync"
        /\ outcome[r] = "ValidationError"
        /\ input[r].brand_voice = BrandVoiceLong
        /\ store = <<OldRow>>

\* C2: a run of generate_script adds at most one row for its request; once
\* the run has ended it has added one exactly when the research result had no
\* error key, the script result had a non-empty full_script and the commit
\* succeeded; and every row of the store is still the row its request wrote
\* (or the row that was there before).
C2_OneRowIffAllStepsSucceeded ==
    /\ \A r \in Requests :
        mode[r] = "sync" =>
            /\ Cardinality(RowIdx(r)) <= 1
            /\ pc[r] = "done" =>
                 (RowIdx(r) # {} <=>
                    (ResearchGood(r) /\ ScriptGood(r) /\ InLog(db_log[r], "commit")))
    /\ \A i \in 1..Len(store) :
          IF store[i].script_id \in Requests
          THEN store[i] = script_record[store[i].script_id]
          ELSE store[i] = OldRow
C2_RowsAreKept ==
    (\E r \in Requests : mode'[r] = "sync" /\ pc'[r] # pc[r]) =>
        /\ Len(store') >= Len(store)
        /\ \A i \in 1..Len(store) : store'[i] = store[i]
\* C2: the row count and the outcome agree in every state, and no step of a
\* generate_script run changes or removes a row that is already in the store.
C2_NoPartialPersistence ==
    []C2_OneRowIffAllStepsSucceeded /\ [][C2_RowsAreKept]_vars
C2_Witness ==
    \E r \in Requests :
        /\ mode[r] = "sync" /\ pc[r] = "done"
        /\ store = <<OldRow, script_record[r]>>

\* C3: in generate_script, when the research stage raised or returned an
\* empty result or a result with an error key, the request fails with
\* ResearchError, the script stage is never called and nothing is added to the
\* session or the store.
C3_BadResearchFailsBeforeScript ==
    \A r \in Requests :
        ( /\ mode[r] = "sync"
          /\ research_calls[r] > 0 /\ pc[r] # "await_research"
          /\ \/ research_data[r] = None
             \/ research_data[r] = << >>
             \/ HasKey(research_data[r], "error") ) =>
            /\ pc[r] = "done"
            /\ outcome[r] = "ResearchError"
            /\ script_calls[r] = 0
            /\ ~InLog(db_log[r], "add")
            /\ RowIdx(r) = {}
C3_Witness ==
    \E r \in Requests :
        /\ mode[r] = "sync" /\ outcome[r] = "ResearchError"
        /\ research_data[r] # None
        /\ HasKey(research_data[r], "error")

\* C4: in generate_script, when the research stage succeeded and the script
\* stage raised or returned a result whose full_script is empty or absent,
\* the request fails with ScriptGenerationError and nothing is added to the
\* session or the store.
C4_BadScriptFailsBeforePersist ==
    \A r \in Requests :
        ( /\ mode[r] = "sync"
          /\ ResearchGood(r)
          /\ script_calls[r] > 0 /\ pc[r] # "await_script"
          /\ ~ScriptGood(r) ) =>
            /\ pc[r] = "done"
            /\ outcome[r] = "ScriptGenerationError"
            /\ ~InLog(db_log[r], "add")
            /\ RowIdx(r) = {}
C4_Witness ==
    \E r \in Requests :
        /\ mode[r] = "sync" /\ outcome[r] = "ScriptGenerationError"
        /\ script_data[r] # None
        /\ HasKey(script_data[r], "full_script")
        /\ script_data[r].full_script = << >>

\* generate_script raises on these stage outcomes (C2, C3, C4): the research
\* stage raised or its result was rejected, the script stage raised or its
\* result was rejected, or the commit failed.
GenerateScriptWouldRaise(r) ==
    \/ ResearchRaised(r)
    \/ research_data[r] = << >>
    \/ HasKey(research_data[r], "error")
    \/ ScriptRaised(r)
    \/ (script_data[r] # None /\ ~ScriptGood(r))
    \/ InLog(db_log[r], "commit_error")

\* C5: the streaming variant has the error semantics of generate_script: for
\* every combination of stage outcomes a finished stream ends with an error
\* event and no row exactly when generate_script raises on those outcomes, and
\* with a complete event and one row exactly when generate_script returns.
C5_StreamMatchesGenerateScript ==
    \A r \in Requests :
        ( /\ mode[r] = "stream" /\ pc[r] = "done"
          /\ ~AnyValidationFails(input[r])
          /\ ~InLog(db_log[r], "refresh_error") ) =>
            /\ (LastEventType(r) = "error" /\ RowIdx(r) = {})
                  <=> GenerateScriptWouldRaise(r)
            /\ (LastEventType(r) = "complete" /\ Cardinality(RowIdx(r)) = 1)
                  <=> ~GenerateScriptWouldRaise(r)

\* C6: in generate_script_stream an error event is the last event and ends
\* the generator; after it the request emits nothing, calls no provider and
\* makes no operation on its session or the store.
C6_ErrorEventIsLast ==
    \A r \in Requests :
        \A i \in 1..Len(events[r]) :
            events[r][i].type = "error" => (i = Len(events[r]) /\ pc[r] = "done")
C6_NothingAfterError ==
    \A r \in Requests :
        LastEventType(r) = "error" =>
            /\ events'[r] = events[r]
            /\ research_calls'[r] = research_calls[r]
            /\ script_calls'[r] = script_calls[r]
            /\ db_log'[r] = db_log[r]
            /\ {i \in 1..Len(store') : store'[i].script_id = r} = RowIdx(r)
\* C6: the error event is always the last one, and no step of the request
\* follows it.
C6_StreamEndsOnError ==
    []C6_ErrorEventIsLast /\ [][C6_NothingAfterError]_vars
C6_Witness ==
    \E r \in Requests :
        /\ mode[r] = "stream"
        /\ Len(events[r]) > 1
        /\ LastEventType(r) = "error"
        /\ script_calls[r] > 0

\* C7: for every request that ends successfully the tokens_used stored and
\* returned is the sum of the counters the provider reported for the request
\* (research input and output, script input and output; a missing counter is
\* zero), whatever shape the stage results have.
C7_TokensUsedIsSumOfReported ==
    \A r \in Requests :
        outcome[r] = "returned" =>
            /\ response[r].tokens_used = reported[r]
            /\ \A i \in RowIdx(r) : store[i].tokens_used = reported[r]

StageOrder == <<"Validated", "Researching", "Scripting", "Persisting", "Responded">>
IsStagePrefix(log) ==
    Len(log) <= Len(StageOrder) /\ \A i \in 1..Len(log) : log[i] = StageOrder[i]
C9_StagesInOrder ==
    \A r \in Requests :
        LET log == stage_log[r]
            n == Len(log)
        IN  /\ IF n > 0 /\ log[n] = "Failed"
               THEN /\ IsStagePrefix(SubSeq(log, 1, n - 1))
                    /\ ~InLog(log, "Responded")
                    /\ pc[r] = "done"
                    /\ outcome[r] # "returned"
                    /\ LastEventType(r) # "complete"
               ELSE IsStagePrefix(log)
            /\ InLog(log, "Scripting") => research_data[r] # None
            /\ InLog(log, "Persisting") => script_data[r] # None
C9_FailedIsAbsorbing ==
    \A r \in Requests :
        InLog(stage_log[r], "Failed") =>
            /\ stage_log'[r] = stage_log[r]
            /\ pc'[r] = pc[r]
            /\ outcome'[r] = outcome[r]
\* C9: the stage order holds in every state, and no step of a request follows
\* its entry into Failed.
C9_LinearStages ==
    []C9_StagesInOrder /\ [][C9_FailedIsAbsorbing]_vars
C9_Witness ==
    \E r \in Requests :
        stage_log[r] = <<"Validated", "Researching", "Scripting", "Persisting", "Failed">>

\* C10: within one request the research provider is called at most once and
\* the script provider at most once; after a provider call failed the request
\* makes no further provider call and fails.
C10_NoRetries ==
    \A r \in Requests :
        /\ research_calls[r] <= 1
        /\ script_calls[r] <= 1
        /\ ResearchRaised(r) => (script_calls[r] = 0 /\ RequestFailed(r))
        /\ ScriptRaised(r) => RequestFailed(r)
C10_Witness ==
    \E r \in Requests :
        /\ ScriptRaised(r)
        /\ research_calls[r] = 1
        /\ script_calls[r] = 1
        /\ RequestFailed(r)

\* C11: in generate_script, when the commit of the new row fails the session
\* is rolled back (the rollback is the next and last session operation, and
\* the added row is no longer pending), the call raises a generic exception,
\* not one of the three pipeline error classes, and the store holds no row of
\* the request.
C11_CommitFailureRollsBack ==
    \A r \in Requests :
        (mode[r] = "sync" /\ InLog(db_log[r], "commit_error")) =>
            /\ db_log[r] = <<"add", "commit_error", "rollback">>
            /\ session[r] = "clean"
            /\ pc[r] = "done"
            /\ outcome[r] = "Exception"
            /\ response[r] = None
            /\ RowIdx(r) = {}
C11_Witness ==
    \E r \in Requests :
        /\ mode[r] = "sync"
        /\ InLog(db_log[r], "commit_error")
        /\ outcome[r] = "Exception"
        /\ ScriptGood(r)

\* C12: at POST /api/generate every exception of the pipeline is answered
\* with status 500 and the exception as detail, and every run of the pipeline
\* that returned is answered with status 200 and the returned response.
C12_HttpStatusFollowsOutcome ==
    \A r \in Requests :
        (mode[r] = "sync" /\ pc[r] = "done") =>
            /\ outcome[r] \in ErrorOutcomes =>
                  HttpAnswer(r) = [status |-> 500, detail |-> outcome[r]]
            /\ outcome[r] = "returned" =>
                  HttpAnswer(r) = [status |-> 200, body |-> response[r]]

\* C13: whenever the text a stage got from its provider call holds no JSON,
\* the stage returns (no exception escapes it) a record that carries the raw
\* text and an error marker; this for the research stage of either provider
\* setting and for the script stage.
C13_UnparsableGivesDegradedRecord ==
    \A r \in Requests :
        /\ (ResearchReplied(r) /\ NoJson(research_reply[r].content)) =>
              IsDegraded(research_data[r], research_reply[r].content)
        /\ (ScriptReplied(r) /\ NoJson(script_reply[r].content)) =>
              IsDegraded(script_data[r], script_reply[r].content)

\* C14: in generate_script, whenever the research model output held no JSON
\* (the research stage handed back its degraded record), the request fails
\* with ResearchError, the script stage is not called and nothing is added to
\* the session or the store; this for either provider setting.
C14_DegradedResearchFailsRequest ==
    \A r \in Requests :
        (mode[r] = "sync" /\ ResearchReplied(r) /\ NoJson(research_reply[r].content)) =>
            /\ outcome[r] = "ResearchError"
            /\ script_calls[r] = 0
            /\ ~InLog(db_log[r], "add")
            /\ RowIdx(r) = {}

\* C15: in the research stage, of either provider setting, a text with a
\* fenced block that parses as a JSON object yields that object, and a text
\* without fences whose span from the first "{" to the last "}" parses as a
\* JSON object (with or without text around it) yields that object.
C15_ResearchExtractsJson ==
    \A r \in Requests :
        ResearchReplied(r) =>
            LET content == research_reply[r].content
                fenced == json_loads(strip(BetweenFences(content, Fences)))
                span == BraceSpan(content)
            IN  /\ (HasFence(content) /\ fenced.ok /\ fenced.is_dict) =>
                      SameObject(research_data[r], fenced.value)
                /\ (~HasFence(content) /\ span.found /\ json_loads(span.json_str).ok) =>
                      SameObject(research_data[r], json_loads(span.json_str).value)

\* C16: in generate_script a script result that carries an error key and a
\* non-empty full_script (the parse fallback of the scriptwriter) is accepted:
\* the request does not fail with ScriptGenerationError, the row is built
\* with the raw model text as full_script, and once commit and refresh have
\* succeeded that row is in the store and the request has responded.
C16_FallbackScriptIsAccepted ==
    \A r \in Requests :
        (/\ mode[r] = "sync"
         /\ script_data[r] # None
         /\ HasKey(script_data[r], "error")
         /\ ~FalsyStr(Get(script_data[r], "full_script", NoneStr))) =>
            /\ outcome[r] # "ScriptGenerationError"
            /\ InLog(db_log[r], "add")
            /\ script_record[r].full_script = script_reply[r].content
            /\ InLog(db_log[r], "refresh") =>
                  /\ outcome[r] = "returned"
                  /\ stage_log[r][Len(stage_log[r])] = "Responded"
                  /\ response[r].full_script = script_reply[r].content
                  /\ \E i \in RowIdx(r) : store[i].full_script = script_reply[r].content
C16_Witness ==
    \E r \in Requests :
        /\ mode[r] = "sync"
        /\ outcome[r] = "returned"
        /\ HasKey(script_data[r], "error")
        /\ NoJson(script_reply[r].content)
        /\ \E i \in RowIdx(r) : store[i].full_script = script_reply[r].content

\* C17: with requests interleaved in any way, the outcome of a request is
\* the one its own input, stage results and session operations give, its row
\* is the one built from its own input and stage results, the rows carry
\* pairwise distinct script_ids, a response is returned only after the row
\* of the request was committed, and no step (a failure and rollback of
\* another request included) changes or removes a row that is in the store.
C17_OwnOutcome(r) ==
    IF AnyValidationFails(input[r]) THEN "ValidationError"
    ELSE IF research_rejected(research_data[r]) THEN "ResearchError"
    ELSE IF script_rejected(script_data[r]) THEN "ScriptGenerationError"
    ELSE IF InLog(db_log[r], "commit_error") \/ InLog(db_log[r], "refresh_error")
    THEN "Exception"
    ELSE "returned"
C17_OwnRow(r, i) ==
    [Script(r, input[r], research_data[r], script_data[r],
            total_tokens(research_data[r], script_data[r]),
            store[i].generation_time) EXCEPT !.id = i, !.created_at = i]
C17_EachRequestOnItsOwn ==
    /\ \A r \in Requests :
          /\ (mode[r] = "sync" /\ pc[r] = "done") => outcome[r] = C17_OwnOutcome(r)
          /\ \A i \in RowIdx(r) : store[i] = C17_OwnRow(r, i)
          /\ Cardinality(RowIdx(r)) <= 1
          /\ response[r] # None => (RowIdx(r) # {} /\ InLog(db_log[r], "commit"))
    /\ \A i, j \in 1..Len(store) : i # j => store[i].script_id # store[j].script_id
C17_StoredRowsStay ==
    /\ Len(store') >= Len(store)
    /\ \A i \in 1..Len(store) : store'[i] = store[i]
C17_RequestsAreIndependent ==
    []C17_EachRequestOnItsOwn /\ [][C17_StoredRowsStay]_vars
C17_Witness ==
    \E r, q \in Requests :
        /\ r < q
        /\ pc[r] = "done" /\ pc[q] = "done"
        /\ outcome[r] = "returned"
        /\ InLog(db_log[q], "refresh_error")
        /\ \E i \in RowIdx(r), j \in RowIdx(q) : j < i
        /\ input[r] = input[q]
        /\ research_data[r] # research_data[q]

\* C18: a request is suspended while its provider call is outstanding, so
\* that every other request that is under way (its own awaited call can
\* complete) is able to take its next step in the meantime.
C18_OthersRunDuringProviderCall ==
    \A r, q \in Requests :
        (/\ r # q
         /\ pc[r] \in {"await_research", "await_script"}
         /\ pc[q] \notin {"idle", "done"}) =>
            ENABLED RequestStep(q)

\* C19: GET of a script by id answers 404 for an id that no stored row has
\* (never inserted, or deleted), and for the id of a row that a generation
\* wrote it answers with a record equal, field by field, to the record the
\* generation inserted, nested JSON values included; the call leaves the
\* store as it was.
C19_Fields ==
    {"topic", "style", "duration", "research_data", "sources", "title",
     "description", "keywords", "full_script", "script_sections",
     "estimated_duration", "tone", "target_audience", "tokens_used",
     "generation_time"}
C19_GetAnswersWhatWasInserted ==
    api_reply # None /\ api_reply.call = "get" =>
        IF \E i \in 1..Len(store) : store[i].script_id = api_reply.script_id
        THEN /\ api_reply.answer.status = 200
             /\ \A f \in C19_Fields :
                  api_reply.answer.body[f] = NewScript(api_reply.script_id)[f]
        ELSE api_reply.answer.status = 404
C19_GetLeavesStore ==
    (\E script_id \in ScriptIds : GetScript(script_id)) => store' = store
C19_GetRoundTrip ==
    []C19_GetAnswersWhatWasInserted /\ [][C19_GetLeavesStore]_vars

\* C20: list_scripts(skip, limit) answers with total equal to the number of
\* rows in the store whatever skip and limit are, and, for skip and limit
\* that are counts, with the rows from the latest created to the earliest,
\* the first skip of them dropped and at most limit kept; on the three rows
\* X, Y, Z inserted in that order, skip 1 and limit 1 give total 3 and the
\* row Y alone.
C20_Kept(n, skip, limit) ==
    LET left == IF n > skip THEN n - skip ELSE 0
    IN  IF limit < left THEN limit ELSE left
C21_Patterns ==
    { <<"h","t","t","p",":","/","/">>,
      <<"h","t","t","p","s",":","/","/">>,
      <<"w","w","w",".">>,
      <<"b","u","y"," ","n","o","w">>,
      <<"c","l","i","c","k"," ","h","e","r","e">> }
C21_SameLetter(c, d) ==
    c = d \/ \E i \in 1..Len(LowerCase) : {c, d} = {LowerCase[i], UpperCase[i]}
C21_HoldsPattern(t) ==
    \E p \in C21_Patterns : \E k \in 0..(Len(t) - Len(p)) :
        \A j \in 1..Len(p) : C21_SameLetter(t[k + j], p[j])
C21_TrimmedLen(t) ==
    LET inner == {i \in 1..Len(t) : t[i] \notin Whitespace}
    IN  Cardinality({i \in 1..Len(t) :
            (\E a \in inner : a <= i) /\ (\E b \in inner : i <= b)})
C21_TopicVerdict ==
    (validated # None /\ validated.fn = "validate_topic"
        /\ validated.verdict # "pending") =>
        (validated.verdict = "ValidationError" <=>
            \/ C21_TrimmedLen(validated.arg) < 5
            \/ Len(validated.arg) > 500
            \/ C21_HoldsPattern(validated.arg))
C21_Witness ==
    /\ validated # None
    /\ validated.fn = "validate_topic"
    /\ validated.verdict = "ValidationError"
    /\ Len(validated.arg) >= 5
    /\ Len(validated.arg) <= 500
    /\ C21_TrimmedLen(validated.arg) >= 5
    /\ ~Contains(validated.arg, <<"w","w","w",".">>)
    /\ C21_HoldsPattern(validated.arg)

\* C22: validation raises ValidationError for every style other than
\* educational, entertaining and inspirational, for every duration other
\* than the five bucket strings, for every research_depth other than quick,
\* medium and deep, and for every brand_voice longer than 1000 characters;
\* it returns for the listed values, for a brand_voice of up to 1000
\* characters, and for a brand_voice that is absent or empty.
C22_Allowed ==
    [validate_style |-> {"educational", "entertaining", "inspirational"},
     validate_duration |-> {"5-8 minutes", "8-10 minutes", "10-15 minutes",
                            "15-20 minutes", "20-30 minutes"},
     validate_research_depth |-> {"quick", "medium", "deep"}]
C22_OtherFieldsVerdict ==
    (validated # None /\ validated.verdict # "pending") =>
        /\ validated.fn \in DOMAIN C22_Allowed =>
             (validated.verdict = "ValidationError"
                <=> validated.arg \notin C22_Allowed[validated.fn])
        /\ validated.fn = "validate_brand_voice" =>
             (validated.verdict = "ValidationError"
                <=> (validated.arg # NoneStr /\ Len(validated.arg) > 1000))
C22_Witness ==
    /\ validated # None
    /\ validated.fn = "validate_brand_voice"
    /\ validated.arg # NoneStr
    /\ Len(validated.arg) = 1000
    /\ validated.verdict = "returned"

\* C23: for every input whose topic, style, duration, research_depth and
\* brand_voice all meet their constraints the five validators return; the
\* verdict on an input is the same every time it is validated, whatever
\* other operations ran in between, and a validation changes nothing.
C23_MeetsConstraints(req) ==
    /\ C21_TrimmedLen(req.topic) >= 5
    /\ Len(req.topic) <= 500
    /\ ~C21_HoldsPattern(req.topic)
    /\ req.style \in C22_Allowed.validate_style
    /\ req.duration \in C22_Allowed.validate_duration
    /\ req.research_depth \in C22_Allowed.validate_research_depth
    /\ (req.brand_voice = NoneStr \/ Len(req.brand_voice) <= 1000)
C23_SameVerdictEveryTime ==
    validated # None =>
        /\ \A i, j \in 1..Len(validated.verdicts) :
             validated.verdicts[i].verdict = validated.verdicts[j].verdict
        /\ C23_MeetsConstraints(validated.arg) =>
             \A i \in 1..Len(validated.verdicts) :
                validated.verdicts[i].verdict = "returned"
C23_ValidationChangesNothing ==
    validated' # validated => UNCHANGED <<store, reqvars, api_reply>>
C24_AgentsAtConstruction ==
    IF provider = "openai"
    THEN [researcher |-> "WebResearchAgent", scriptwriter |-> "ScriptwriterAgent(OpenAIAgent)"]
    ELSE [researcher |-> "ResearchAgent", scriptwriter |-> "ScriptwriterAgent(ClaudeAgent)"]
C24_OneAgentForAllCalls ==
    \A r \in Requests :
        /\ research_reply[r] # None =>
             research_reply[r].agent = C24_AgentsAtConstruction.researcher
        /\ script_reply[r] # None =>
             script_reply[r].agent = C24_AgentsAtConstruction.scriptwriter
C24_ChoiceIsKept == provider' = provider
C25_Checkpoints ==
    << [step |-> "research", progress |-> 10],
       [step |-> "research", progress |-> 33],
       [step |-> "analysis", progress |-> 50],
       [step |-> "writing", progress |-> 66],
       [step |-> "writing", progress |-> 90] >>
C25_IsCheckpoints(evs, n) ==
    /\ Len(evs) = n
    /\ \A i \in 1..n :
         /\ evs[i].type = "progress"
         /\ evs[i].step = C25_Checkpoints[i].step
         /\ evs[i].progress = C25_Checkpoints[i].progress
C25_ResponseKeys ==
    {"script_id", "topic", "title", "description", "keywords", "hook", "intro",
     "body", "conclusion", "full_script", "estimated_duration", "tone",
     "target_audience", "sources", "key_findings", "tokens_used",
     "generation_time", "created_at"}
C25_Absent(d, k, default) == IF k \in DOMAIN d THEN d[k] ELSE default
C25_StreamCheckpoints ==
    \A r \in Requests :
        mode[r] = "stream" =>
            /\ pc[r] = "await_research" =>
                 /\ C25_IsCheckpoints(events[r], 1)
                 /\ research_calls[r] = 1 /\ script_calls[r] = 0
            /\ research_reply[r] = None => Len(events[r]) <= 1
            /\ pc[r] = "await_script" =>
                 /\ C25_IsCheckpoints(events[r], 4)
                 /\ script_calls[r] = 1
            /\ script_reply[r] = None =>
                 \A i \in 1..Len(events[r]) :
                    events[r][i].type = "progress" => events[r][i].progress <= 66
            /\ script_calls[r] > 0 => Len(events[r]) >= 4
            /\ LastEventType(r) = "complete" =>
                 LET n == Len(events[r])
                     data == events[r][n].data
                 IN  /\ n = 6
                     /\ C25_IsCheckpoints(SubSeq(events[r], 1, 5), 5)
                     /\ events[r][n].progress = 100
                     /\ research_calls[r] = 1 /\ script_calls[r] = 1
                     /\ InLog(db_log[r], "commit")
                     /\ Cardinality(RowIdx(r)) = 1
                     /\ DOMAIN data = C25_ResponseKeys
                     /\ data.topic = input[r].topic
                     /\ data.full_script = C25_Absent(script_data[r], "full_script", << >>)
                     /\ data.title = C25_Absent(script_data[r], "title", NoneStr)
                     /\ data.estimated_duration =
                          C25_Absent(script_data[r], "estimated_duration", NoneStr)
                     /\ data.keywords = C25_Absent(script_data[r], "keywords", << >>)
                     /\ data.sources = C25_Absent(research_data[r], "sources", << >>)
                     /\ data.key_findings =
                          C25_Absent(research_data[r], "key_findings", << >>)
                     /\ \A i \in RowIdx(r) :
                          /\ data.script_id = store[i].script_id
                          /\ data.tokens_used = store[i].tokens_used
                          /\ data.generation_time = store[i].generation_time
                          /\ data.created_at = [iso |-> store[i].created_at]
C25_Witness ==
    \E r \in Requests :
        /\ mode[r] = "stream"
        /\ LastEventType(r) = "complete"
        /\ events[r][2].found = 1
        /\ events[r][6].data.sources # << >>
        /\ events[r][6].data.full_script # << >>

\* C26: WebResearchAgent.research_topic takes JSON only from the span that
\* runs from the first "{" to the last "}" of the answer, fences or not;
\* when there is no such span, or the span is not JSON, it returns, without
\* raising, a record with the requested topic and empty sources, statistics,
\* trending_angles and hook_ideas.
C26_Span(text) ==
    LET opens == {i \in 1..Len(text) : text[i] = "{"}
        closes == {i \in 1..Len(text) : text[i] = "}"}
    IN  IF opens = {} \/ closes = {} THEN << >>
        ELSE LET first == CHOOSE i \in opens : \A j \in opens : i <= j
                 last == CHOOSE i \in closes : \A j \in closes : j <= i
             IN  IF first < last THEN SubSeq(text, first, last) ELSE << >>
C26_SpanOnlyAndFallback ==
    (called # None /\ called.fn = "WebResearchAgent.research_topic"
        /\ called.result # None) =>
        LET span == C26_Span(called.text)
        IN  /\ ~called.result.raised
            /\ IF span # << >> /\ json_loads(span).ok
               THEN called.result.value = json_loads(span).value
               ELSE /\ called.result.value.topic = called.topic
                    /\ called.result.value.sources = << >>
                    /\ called.result.value.statistics = << >>
                    /\ called.result.value.trending_angles = << >>
                    /\ called.result.value.hook_ideas = << >>
C26_Witness ==
    /\ called # None
    /\ called.fn = "WebResearchAgent.research_topic"
    /\ called.result # None
    /\ HasFence(called.text)
    /\ json_loads(ExtractFenced(called.text)).ok
    /\ C26_Span(called.text) # << >>
    /\ "sources" \in DOMAIN called.result.value
    /\ called.result.value.sources = << >>
\* C27: RefinementService.refine_section, for any section name, current
\* content and research data, returns a record with exactly the keys
\* section_name, refined_content and feedback_applied, where section_name is
\* the one given and feedback_applied is true exactly when user_feedback was
\* given (is not None).
C27_RefineSectionReturnsRecord ==
    (called # None /\ called.fn = "RefinementService.refine_section"
        /\ called.result # None) =>
        /\ ~called.result.raised
        /\ DOMAIN called.result.value =
               {"section_name", "refined_content", "feedback_applied"}
        /\ called.result.value.section_name = called.section_name
        /\ called.result.value.feedback_applied = (called.user_feedback # NoneStr)

\* C28: whenever a generation request ends in failure (generate_script has
\* raised, or the stream has ended with an error event), the store holds no
\* row with the script_id of that request, whichever step failed: research,
\* script, commit, the refresh after the commit, or building the response.
C28_Failed(r) ==
    /\ pc[r] = "done"
    /\ \/ mode[r] = "sync" /\ outcome[r] \notin {"none", "returned"}
       \/ mode[r] = "stream" /\ LastEventType(r) = "error"
C28_FailedRequestLeavesNoRow ==
    \A r \in Requests : C28_Failed(r) => RowIdx(r) = {}

\* C29: every run of generate_script_stream consumed to the end has emitted
\* exactly one terminal event (type complete or error), that event is the
\* last one and nothing is emitted after it, the progress values of the
\* events before it are strictly increasing, and when a validation fails the
\* error event is the only event of the stream.
C29_Terminal(e) == e.type \in {"complete", "error"}
C29_TerminalAt(r) == {i \in 1..Len(events[r]) : C29_Terminal(events[r][i])}
C29_StreamShape ==
    \A r \in Requests :
        mode[r] = "stream" =>
            /\ C29_TerminalAt(r) \subseteq {Len(events[r])}
            /\ pc[r] = "done" <=> C29_TerminalAt(r) # {}
            /\ \A i, j \in 1..Len(events[r]) :
                  (i < j /\ ~C29_Terminal(events[r][i]) /\ ~C29_Terminal(events[r][j]))
                      => events[r][i].progress < events[r][j].progress
            /\ (pc[r] = "done" /\ AnyValidationFails(input[r])) =>
                  (Len(events[r]) = 1 /\ events[r][1].type = "error")
C29_TerminalEndsStream ==
    \A r \in Requests :
        (mode[r] = "stream" /\ C29_TerminalAt(r) # {}) => events'[r] = events[r]
C29_OneTerminalEventLast ==
    []C29_StreamShape /\ [][C29_TerminalEndsStream]_vars
C29_Witness ==
    \E r \in Requests :
        /\ mode[r] = "stream" /\ pc[r] = "done"
        /\ Len(events[r]) = 6
        /\ events[r][6].type = "complete"
        /\ \A i \in 1..5 : events[r][i].progress < events[r][i + 1].progress

\* C30: DELETE /api/scripts/{script_id} on an id the store has answers 200,
\* removes exactly the row of that id, leaves every other row as it was and
\* in its place, and a GET of that id is then answered 404; on an id the
\* store does not have it answers 404 and leaves the store unchanged.
C30_Has(s, script_id) == \E i \in 1..Len(s) : s[i].script_id = script_id
C30_Others(s, script_id) ==
    LET idx == {i \in 1..Len(s) : s[i].script_id # script_id}
    IN  [k \in 1..Cardinality(idx) |->
            s[CHOOSE i \in idx : Cardinality({j \in idx : j < i}) = k - 1]]
C30_DeleteStep ==
    (api_reply' # None /\ api_reply'.call = "delete") =>
        LET script_id == api_reply'.script_id
        IN  IF C30_Has(store, script_id)
            THEN /\ api_reply'.answer.status = 200
                 /\ Len(store') = Len(store) - 1
                 /\ store' = C30_Others(store, script_id)
                 /\ ~C30_Has(store', script_id)
                 /\ api_get_script(store', script_id).status = 404
            ELSE /\ api_reply'.answer.status = 404
                 /\ store' = store
C30_GetAfterDelete ==
    (api_reply # None /\ api_reply.call = "get") =>
        (api_reply.answer.status = 404 <=> ~C30_Has(store, api_reply.script_id))
====
